---- MODULE Spec2Model ----
(***************************************************************************)
(* The event delivery engine of node-trace: QueueManager (queue/manager),  *)
(* PriorityQueue (queue/priority), EventDedupe / LRUCache (queue/dedupe)   *)
(* and the DexieStorage offline store (db.ts).                             *)
(*                                                                         *)
(* JavaScript runs every callback to completion, so one action is one      *)
(* macrotask: a public call (push, flush, init), a timer callback, or the  *)
(* continuation of an awaited I/O operation (transport send, IndexedDB).   *)
(* IndexedDB serialises the operations on one store in the order they are  *)
(* issued, so an operation takes effect when it is issued and only its     *)
(* continuation is delayed. The host is a browser (isBrowser() is true),   *)
(* so the offline store is in use.                                         *)
(***************************************************************************)
EXTENDS Integers, Sequences, FiniteSets, TLC

(***************************************************************************)
(* Bounds of the model and the configuration handed to init().             *)
(***************************************************************************)
MaxPushes == 3
MaxSends == 3
BackoffPushes == 2
BackoffSends == 6
MaxLanePushes == 4
TeardownPushes == 2
TeardownSends == 2
MaxClears == 2
RecoveryPushes == 2
RecoverySends == 2
HookSends == 1
MaxRegisters == 3
MaxTracks == 2
TrackSends == 1
MaxTicks == 4
DedupeCapacity == 2
maxQueueSize == 2
batchSize == 2
retryCount == 1
retryInterval == 1000

(***************************************************************************)
(* QUEUE_CONSTANTS. Pressure thresholds and ratios are in percent.         *)
(***************************************************************************)
MAX_BATCH_SIZE == 50
MIN_BATCH_SIZE == 5
QUEUE_PRESSURE_HIGH == 70
QUEUE_PRESSURE_VERY_HIGH == 90
QUEUE_PRESSURE_LOW == 20
QUEUE_PRESSURE_MEDIUM == 60
MAX_RETRY_COUNT == 5
QUEUE_CLEANUP_RATIO == 10
MAX_CLEANUP_COUNT == 10
DEDUPE_CACHE_MAX_SIZE == 10000
WRITE_BUFFER_SIZE == 100
BEACON_SIZE_LIMIT == 65536
MAX_BATCH_INTERVAL == 3000
MIN_BATCH_INTERVAL == 200
SMALL_DATA_THRESHOLD == 1024
NETWORK_CHECK_INTERVAL == 5000

Min(a, b) == IF a < b THEN a ELSE b
Max(a, b) == IF a > b THEN a ELSE b

(***************************************************************************)
(* Payload: the fields the engine reads. Two of the events share an id and *)
(* differ in their timestamp: their composite identities differ.           *)
(***************************************************************************)
Payload(i, n, t) == [id |-> i, event |-> n, timestamp |-> t]

Events ==
  { Payload(1, "click", 1), Payload(1, "click", 2), Payload(2, "js_error", 1) }

\* Two events of the normal lane with different ids.
RecoveryEvents == { Payload(1, "click", 1), Payload(3, "click", 1) }

Payloads == Events \cup RecoveryEvents

\* `${event.id}_${event.event}_${event.timestamp}`; ids and names of the
\* model hold no separator, so the key is the triple.
generateEventKey(e) == <<e.id, e.event, e.timestamp>>

determineEventPriority(name) ==
  IF name \in {"js_error", "promise_error", "session_start", "session_end"}
    THEN "high"
  ELSE IF name \in {"scroll", "page_view", "performance"} THEN "low"
  ELSE "normal"

(***************************************************************************)
(* LRUCache: a Map in insertion order, modelled as the sequence of keys.   *)
(***************************************************************************)
LRUHas(cache, key) == \E i \in 1..Len(cache) : cache[i] = key

LRUDelete(cache, key) == SelectSeq(cache, LAMBDA k : k # key)

\* set that evicts nothing.
LRUSetKeepsAll(cache, key, maxSize) ==
  IF LRUHas(cache, key) THEN cache ELSE Append(cache, key)

\* set(key, value): at capacity the first key of the Map goes; the key of an
\* entry that exists keeps its place.
LRUSet(cache, key, maxSize) ==
  LET c1 == IF Len(cache) >= maxSize THEN Tail(cache) ELSE cache
  IN  IF LRUHas(c1, key) THEN c1 ELSE Append(c1, key)

(***************************************************************************)
(* EventDedupe over the LRUCache.                                          *)
(***************************************************************************)
DedupeExists(dd, e) == LRUHas(dd, generateEventKey(e))

DedupeAdd(dd, e) == LRUSet(dd, generateEventKey(e), DEDUPE_CACHE_MAX_SIZE)

DedupeRemove(dd, e) == LRUDelete(dd, generateEventKey(e))

RECURSIVE DedupeRemoveBatch(_, _)
DedupeRemoveBatch(dd, events) ==
  IF events = << >> THEN dd
  ELSE DedupeRemoveBatch(DedupeRemove(dd, Head(events)), Tail(events))

RECURSIVE DedupeAddAll(_, _)
DedupeAddAll(dd, events) ==
  IF events = << >> THEN dd
  ELSE DedupeAddAll(DedupeAdd(dd, Head(events)), Tail(events))

(***************************************************************************)
(* PriorityQueue: three FIFO lanes.                                        *)
(***************************************************************************)
EmptyLanes == [high |-> << >>, normal |-> << >>, low |-> << >>]

\* push(event, priority) appends {...event, priority} to the lane.
PQPush(pq, e, priority) ==
  [pq EXCEPT ![priority] =
     Append(@, [id |-> e.id, event |-> e.event, timestamp |-> e.timestamp,
                priority |-> priority])]

PQSize(pq) == Len(pq.high) + Len(pq.normal) + Len(pq.low)

\* pop() that looks at the normal lane first.
PQPopNormalFirst(pq) ==
  IF Len(pq.normal) > 0
    THEN [event |-> Head(pq.normal), pq |-> [pq EXCEPT !.normal = Tail(@)]]
  ELSE IF Len(pq.high) > 0
    THEN [event |-> Head(pq.high), pq |-> [pq EXCEPT !.high = Tail(@)]]
  ELSE [event |-> Head(pq.low), pq |-> [pq EXCEPT !.low = Tail(@)]]

\* pop(): the popped event and the lanes left.
PQPop(pq) ==
  IF Len(pq.high) > 0
    THEN [event |-> Head(pq.high), pq |-> [pq EXCEPT !.high = Tail(@)]]
  ELSE IF Len(pq.normal) > 0
    THEN [event |-> Head(pq.normal), pq |-> [pq EXCEPT !.normal = Tail(@)]]
  ELSE [event |-> Head(pq.low), pq |-> [pq EXCEPT !.low = Tail(@)]]

RECURSIVE PQGetBatchFrom(_, _, _)
PQGetBatchFrom(pq, size, batch) ==
  IF Len(batch) < size /\ PQSize(pq) > 0
    THEN LET r == PQPop(pq)
         IN  PQGetBatchFrom(r.pq, size, Append(batch, r.event))
  ELSE [batch |-> batch, pq |-> pq]

PQGetBatch(pq, size) == PQGetBatchFrom(pq, size, << >>)

(***************************************************************************)
(* QueueManager state.                                                     *)
(*   config         [set, offlineEnabled]; set = FALSE is config === null  *)
(*   queue          the plain queue                                        *)
(*   priorityQueue  the three lanes                                        *)
(*   dedupe         the keys of the EventDedupe cache, oldest first        *)
(*   stats          totalEvents, sendSuccessCount, sendFailCount           *)
(*   timer          TRUE when this.timer holds a handle                    *)
(*   timeouts       the delayed-flush timeouts still to fire: held is the  *)
(*                  one whose handle this.timer holds, orphans counts the  *)
(*                  ones whose handle flush() has overwritten with null    *)
(*   retryTimers    the retry callbacks still to fire                      *)
(*   offlineCheckTimer  TRUE when the recovery interval runs               *)
(*   cachedPressure [val, fresh]: val = -1 is null, otherwise the queue    *)
(*                  length the cached pressure was computed from; fresh is *)
(*                  FALSE once PRESSURE_CACHE_TTL has passed               *)
(*   flights        the flush() calls past their batch selection           *)
(*   db             DexieStorage: writeBuffer, writeTimer and the table    *)
(*   restore        the restoreOfflineEvents() call in progress; due is    *)
(*                  history: ghost.stored when the call started            *)
(*   ghost          history kept for the properties only: the pushes and   *)
(*                  sends the run may still make, per identity how often   *)
(*                  it was admitted, delivered and re-queued, the run of   *)
(*                  failed sends, the identities written to the store and  *)
(*                  not selected since, and the last step taken            *)
(*   plugins        the Plugins registry: registered is the map in         *)
(*                  insertion order, sortedPluginsCache the cache of       *)
(*                  core's state (valid is FALSE for null)                 *)
(*   hookLog        history kept for the properties only: the register()   *)
(*                  and track() calls the run may still make and what the  *)
(*                  last one did                                           *)
(***************************************************************************)
VARIABLES config, queue, priorityQueue, dedupe, stats, timer, timeouts,
          retryTimers, offlineCheckTimer, cachedPressure, flights, db,
          restore, ghost, plugins, hookLog

vars == <<config, queue, priorityQueue, dedupe, stats, timer, timeouts,
          retryTimers, offlineCheckTimer, cachedPressure, flights, db,
          restore, ghost, plugins, hookLog>>

NoCache == [val |-> -1, fresh |-> FALSE]

\* calculatePressure(): the queue length the returned pressure stands for
\* (pressure = p / maxQueueSize) and the cache afterwards.
calculatePressure(q, cp) ==
  IF cp.val # -1 /\ cp.fresh THEN [p |-> cp.val, cp |-> cp]
  ELSE [p |-> Len(q), cp |-> [val |-> Len(q), fresh |-> TRUE]]

\* pressure > threshold and pressure < threshold, thresholds in percent.
PressureAbove(p, threshold) == p * 100 > threshold * maxQueueSize
PressureBelow(p, threshold) == p * 100 < threshold * maxQueueSize

\* getDynamicBatchSize(): Math.floor(batchSize * 0.8), Math.ceil(batchSize * 1.2).
getDynamicBatchSize(q, cp) ==
  LET r == calculatePressure(q, cp)
      bs == IF PressureAbove(r.p, QUEUE_PRESSURE_MEDIUM)
              THEN Max((batchSize * 8) \div 10, MIN_BATCH_SIZE)
            ELSE IF PressureBelow(r.p, QUEUE_PRESSURE_LOW)
              THEN Min((batchSize * 12 + 9) \div 10, MAX_BATCH_SIZE)
            ELSE batchSize
  IN  [size |-> Min(bs, Len(q)), cp |-> r.cp]

\* handleQueueFull() without the dedupe.removeBatch call.
handleQueueFullKeepsKeys(q, dd, cp) ==
  LET r == calculatePressure(q, cp)
      removedEvents == SubSeq(q, 1, Min(1, Len(q)))
  IN  [queue |-> SubSeq(q, Len(removedEvents) + 1, Len(q)),
       dedupe |-> dd,
       removed |-> removedEvents,
       cp |-> r.cp]

\* handleQueueFull(): the queue and dedupe cache after the eviction.
handleQueueFull(q, dd, cp) ==
  LET r == calculatePressure(q, cp)
      removeCount ==
        IF PressureAbove(r.p, QUEUE_PRESSURE_VERY_HIGH)
          THEN Min((Len(q) * QUEUE_CLEANUP_RATIO + 99) \div 100, MAX_CLEANUP_COUNT)
        ELSE IF PressureAbove(r.p, QUEUE_PRESSURE_HIGH)
          THEN Min((Len(q) * 5 + 99) \div 100, 5)
        ELSE 1
      n == Min(removeCount, Len(q))
      removedEvents == SubSeq(q, 1, n)
  IN  [queue |-> SubSeq(q, n + 1, Len(q)),
       dedupe |-> DedupeRemoveBatch(dd, removedEvents),
       removed |-> removedEvents,
       cp |-> r.cp]

SeqIds(s) == {s[i].id : i \in 1..Len(s)}

\* flush() that leaves the selected batch in the queue.
flushSelectKeepsQueue(q, pq, dd, cp) ==
  LET bs == getDynamicBatchSize(q, cp)
      pb == PQGetBatch(pq, bs.size)
      batch == SelectSeq(q, LAMBDA e : e.id \in SeqIds(pb.batch))
  IN  [batch |-> batch,
       queue |-> q,
       priorityQueue |-> pb.pq,
       dedupe |-> DedupeRemoveBatch(dd, batch),
       cp |-> bs.cp]

\* flush() without the dedupe.removeBatch call.
flushSelectKeepsKeys(q, pq, dd, cp) ==
  LET bs == getDynamicBatchSize(q, cp)
      pb == PQGetBatch(pq, bs.size)
      batch == SelectSeq(q, LAMBDA e : e.id \in SeqIds(pb.batch))
  IN  [batch |-> batch,
       queue |-> SelectSeq(q, LAMBDA e : e.id \notin SeqIds(pb.batch)),
       priorityQueue |-> pb.pq,
       dedupe |-> dd,
       cp |-> bs.cp]

\* flush() up to applyBeforeSendHooks: the batch and what is left.
flushSelect(q, pq, dd, cp) ==
  LET bs == getDynamicBatchSize(q, cp)
      pb == PQGetBatch(pq, bs.size)
      batchIds == SeqIds(pb.batch)
      batch == SelectSeq(q, LAMBDA e : e.id \in batchIds)
  IN  [batch |-> batch,
       queue |-> SelectSeq(q, LAMBDA e : e.id \notin batchIds),
       priorityQueue |-> pb.pq,
       dedupe |-> DedupeRemoveBatch(dd, batch),
       cp |-> bs.cp]

RECURSIVE Pow2(_)
Pow2(n) == IF n = 0 THEN 1 ELSE 2 * Pow2(n - 1)

\* The retry delay without the modulo.
retryDelayUncapped(sendFailCount) ==
  retryInterval * Pow2(sendFailCount)

\* handleSendFailure: the delay of the retry timer, from stats.sendFailCount.
retryDelay(sendFailCount) ==
  retryInterval * Pow2(sendFailCount % MAX_RETRY_COUNT)

ZeroCount == [e \in Payloads |-> 0]

\* The history of a new manager: pushes and sends are the calls the run may
\* still make; run is kept only when track is set.
NewGhost(pushes, sends, track) ==
  [pushes |-> pushes, sends |-> sends, track |-> track, run |-> << >>,
   early |-> 0, fails |-> 0, consecutiveFails |-> 0,
   admitted |-> ZeroCount, delivered |-> ZeroCount, requeued |-> ZeroCount,
   stored |-> {}, recovered |-> {}, clears |-> 0, teardown |-> "none",
   last |-> [op |-> "new", e |-> << >>, removed |-> << >>]]

\* core's state with no plugin registered, no sorted list cached and the
\* default options: no beforeSend callback, an empty blacklist.
NoPlugins ==
  [registered |-> << >>,
   sortedPluginsCache |-> [valid |-> FALSE, list |-> << >>],
   beforeSend |-> "none", blacklist |-> {}]

NewLog(calls) == [calls |-> calls, last |-> [op |-> "new"]]

\* A manager as constructed, or as init(cfg) leaves a new one.
ManagerFields(cfg, history) ==
  /\ config = cfg
  /\ queue = << >>
  /\ priorityQueue = EmptyLanes
  /\ dedupe = << >>
  /\ stats = [totalEvents |-> 0, sendSuccessCount |-> 0, sendFailCount |-> 0]
  /\ timer = FALSE
  /\ timeouts = [held |-> FALSE, orphans |-> 0]
  /\ retryTimers = << >>
  /\ offlineCheckTimer = cfg.offlineEnabled
  /\ cachedPressure = NoCache
  /\ flights = << >>
  /\ db = [writeBuffer |-> << >>, writeTimer |-> FALSE, table |-> {}]
  /\ restore = [phase |-> "idle", events |-> << >>, due |-> {}]
  /\ ghost = history

\* The manager next to an empty plugin registry.
Manager(cfg, history) ==
  /\ plugins = NoPlugins
  /\ hookLog = NewLog(0)
  /\ ManagerFields(cfg, history)

NoConfig == [set |-> FALSE, offlineEnabled |-> FALSE]

Configured(offline) == [set |-> TRUE, offlineEnabled |-> offline]

Init == Manager(NoConfig, NewGhost(MaxPushes, MaxSends, FALSE))

Step(op, e, removed) == [op |-> op, e |-> e, removed |-> removed]

\* The identities of a batch, and a counter raised by one for each of them.
SeqSet(s) == {s[i] : i \in 1..Len(s)}

Count(s, e) == Cardinality({i \in 1..Len(s) : s[i] = e})

Bump(counter, batch) ==
  [e \in Payloads |-> IF e \in SeqSet(batch) THEN counter[e] + 1 ELSE counter[e]]

\* Array.prototype.sort by priority, stable: x goes behind the plugins of
\* the sorted list whose priority is not greater.
RECURSIVE InsertByPriority(_, _)
InsertByPriority(sorted, x) ==
  IF sorted = << >> THEN <<x>>
  ELSE IF Head(sorted).priority <= x.priority
    THEN <<Head(sorted)>> \o InsertByPriority(Tail(sorted), x)
  ELSE <<x>> \o sorted

RECURSIVE SortByPriority(_)
SortByPriority(ps) ==
  IF ps = << >> THEN << >>
  ELSE InsertByPriority(SortByPriority(SubSeq(ps, 1, Len(ps) - 1)), ps[Len(ps)])

\* Plugins.sort(): the enabled plugins by priority.
pluginsSort(ps) == SortByPriority(SelectSeq(ps, LAMBDA x : x.enabled))

\* applyBeforeSendHooks(batch) over the events: result after the hooks of
\* the sorted plugins. A beforeSend hook returns the batch it is handed
\* ("same"), returns it without its first event ("filter"), returns it in
\* reverse order ("reorder") or throws ("throw"), which leaves result as it
\* was; a plugin without the property has no hook.
RECURSIVE processedBatch(_, _)
processedBatch(sorted, result) ==
  IF sorted = << >> THEN result
  ELSE LET plugin == Head(sorted)
           hook == IF "beforeSend" \in DOMAIN plugin THEN plugin.beforeSend
                   ELSE "none"
       IN  processedBatch(
             Tail(sorted),
             IF hook = "filter" /\ result # << >> THEN Tail(result)
             ELSE IF hook = "reorder"
               THEN [i \in 1..Len(result) |-> result[Len(result) + 1 - i]]
             ELSE result)

\* flush(): a no-op without config or with an empty queue, otherwise the
\* batch is selected, passed through the beforeSend hooks and handed to
\* sender.send, whose answer is awaited; removed is the batch selected.
flush(q, pq, dd, cp, fl) ==
  IF ~config.set \/ Len(q) = 0
    THEN [queue |-> q, priorityQueue |-> pq, dedupe |-> dd, cp |-> cp,
          flights |-> fl, started |-> FALSE]
  ELSE LET s == flushSelect(q, pq, dd, cp)
       IN  [queue |-> s.queue, priorityQueue |-> s.priorityQueue,
            dedupe |-> s.dedupe, cp |-> s.cp,
            flights |-> Append(fl, [batch |-> processedBatch(
                                                pluginsSort(plugins.registered),
                                                s.batch),
                                    removed |-> s.batch,
                                    phase |-> "sending"]),
            started |-> TRUE]

\* schedule(): arms the delayed flush unless this.timer holds a handle;
\* getDynamicInterval() reads the pressure through the cache.
schedule(q, cp, t, to) ==
  IF t THEN [cp |-> cp, timer |-> t, timeouts |-> to]
  ELSE [cp |-> calculatePressure(q, cp).cp, timer |-> TRUE,
        timeouts |-> [to EXCEPT !.held = TRUE]]

\* this.timer = null at the end of flush(): a timeout still pending under
\* the forgotten handle stays pending.
TimerNull(to) ==
  IF to.held THEN [held |-> FALSE, orphans |-> to.orphans + 1] ELSE to

(***************************************************************************)
(* init(config)                                                            *)
(***************************************************************************)
InitManager(offline) ==
  /\ ~config.set
  /\ config' = Configured(offline)
  /\ offlineCheckTimer' = offline
  /\ ghost' = [ghost EXCEPT !.teardown = "none",
                            !.last = Step("init", << >>, << >>)]
  /\ UNCHANGED <<plugins, hookLog,
                 queue, priorityQueue, dedupe, stats, timer, timeouts,
                 retryTimers, cachedPressure, flights, db, restore>>

(***************************************************************************)
(* push(event)                                                             *)
(***************************************************************************)
PushRejected(e) ==
  /\ DedupeExists(dedupe, e)
  /\ ghost' = [ghost EXCEPT !.pushes = @ - 1,
                            !.teardown = "none",
                            !.last = Step("rejected", e, << >>)]
  /\ UNCHANGED <<config, queue, priorityQueue, dedupe, stats, timer, timeouts,
                 retryTimers, offlineCheckTimer, cachedPressure, flights, db,
                 restore>>

PushBeforeInit(e) ==
  /\ ~DedupeExists(dedupe, e)
  /\ ~config.set
  /\ queue' = Append(queue, e)
  /\ dedupe' = DedupeAdd(dedupe, e)
  /\ ghost' = [ghost EXCEPT !.pushes = @ - 1,
                            !.admitted[e] = @ + 1,
                            !.early = @ + 1,
                            !.teardown = "none",
                            !.last = Step("pushed", e, << >>)]
  /\ UNCHANGED <<config, priorityQueue, stats, timer, timeouts, retryTimers,
                 offlineCheckTimer, cachedPressure, flights, db, restore>>

PushAdmitted(e) ==
  /\ ~DedupeExists(dedupe, e)
  /\ config.set
  /\ LET h == IF Len(queue) >= maxQueueSize
                THEN handleQueueFull(queue, dedupe, cachedPressure)
              ELSE [queue |-> queue, dedupe |-> dedupe, removed |-> << >>,
                    cp |-> cachedPressure]
         q1 == Append(h.queue, e)
         dd1 == DedupeAdd(h.dedupe, e)
         pq1 == PQPush(priorityQueue, e, determineEventPriority(e.event))
         r == calculatePressure(q1, NoCache)
         high == PressureAbove(r.p, QUEUE_PRESSURE_HIGH)
         f == flush(q1, pq1, dd1, r.cp, flights)
         s == schedule(q1, r.cp, timer, timeouts)
     IN  /\ high /\ f.started => ghost.sends > 0
         /\ stats' = [stats EXCEPT !.totalEvents = @ + 1]
         /\ queue' = IF high THEN f.queue ELSE q1
         /\ priorityQueue' = IF high THEN f.priorityQueue ELSE pq1
         /\ dedupe' = IF high THEN f.dedupe ELSE dd1
         /\ cachedPressure' = IF high THEN f.cp ELSE s.cp
         /\ flights' = IF high THEN f.flights ELSE flights
         /\ timer' = IF high THEN timer ELSE s.timer
         /\ timeouts' = IF high THEN timeouts ELSE s.timeouts
         /\ ghost' = [ghost EXCEPT
                        !.pushes = @ - 1,
                        !.teardown = "none",
                        !.admitted[e] = @ + 1,
                        !.run = IF ghost.track THEN Append(@, e) ELSE @,
                        !.stored = IF high /\ f.started
                                     THEN @ \ SeqSet(f.flights[Len(f.flights)].batch)
                                   ELSE @,
                        !.recovered =
                          IF high /\ f.started
                            THEN (@ \ SeqSet(h.removed))
                                   \ SeqSet(f.flights[Len(f.flights)].batch)
                          ELSE @ \ SeqSet(h.removed),
                        !.sends = IF high /\ f.started THEN @ - 1 ELSE @,
                        !.last = Step(IF high THEN "pushed+flush" ELSE "pushed",
                                      e, h.removed)]
  /\ UNCHANGED <<config, retryTimers, offlineCheckTimer, db, restore>>

\* core's push(event): queueManager.push(event).
push(e) ==
  /\ ghost.pushes > 0
  /\ \/ PushRejected(e)
     \/ PushBeforeInit(e)
     \/ PushAdmitted(e)

Push(e) == push(e) /\ UNCHANGED <<plugins, hookLog>>

(***************************************************************************)
(* flush() from the delayed-flush timer.                                    *)
(***************************************************************************)
FlushNow(op) ==
  LET f == flush(queue, priorityQueue, dedupe, cachedPressure, flights)
  IN  /\ f.started => ghost.sends > 0
      /\ queue' = f.queue
      /\ priorityQueue' = f.priorityQueue
      /\ dedupe' = f.dedupe
      /\ cachedPressure' = f.cp
      /\ flights' = f.flights
      /\ ghost' = [ghost EXCEPT !.sends = IF f.started THEN @ - 1 ELSE @,
                                !.stored = IF f.started
                                             THEN @ \ SeqSet(f.flights[Len(f.flights)].batch)
                                           ELSE @,
                                !.recovered = IF f.started
                                                THEN @ \ SeqSet(f.flights[Len(f.flights)].batch)
                                              ELSE @,
                                !.last = Step(op, << >>, << >>)]

TimerFire ==
  /\ \/ /\ timeouts.held
        /\ timeouts' = [timeouts EXCEPT !.held = FALSE]
     \/ /\ timeouts.orphans > 0
        /\ timeouts' = [timeouts EXCEPT !.orphans = @ - 1]
  /\ FlushNow("timer")
  /\ UNCHANGED <<plugins, hookLog,
                 config, stats, timer, retryTimers, offlineCheckTimer, db,
                 restore>>

(***************************************************************************)
(* DexieStorage. The table is keyed by id: bulkAdd skips a record whose id *)
(* is already stored (the error is swallowed) and stores the others.       *)
(***************************************************************************)
RECURSIVE bulkAdd(_, _)
bulkAdd(table, events) ==
  IF events = << >> THEN table
  ELSE LET e == Head(events)
       IN  bulkAdd(IF \E x \in table : x.id = e.id THEN table
                   ELSE table \cup {e}, Tail(events))

bulkDelete(table, ids) == {x \in table : x.id \notin ids}

\* toArray(): the records in primary-key order.
RECURSIVE toArray(_)
toArray(table) ==
  IF table = {} THEN << >>
  ELSE LET first == CHOOSE x \in table : \A y \in table : x.id <= y.id
       IN  <<first>> \o toArray(table \ {first})

\* flushBuffer(): the write buffer goes to the table.
flushBuffer(d) ==
  [d EXCEPT !.writeBuffer = << >>, !.table = bulkAdd(d.table, d.writeBuffer)]

\* DB.add that loses the last event handed to it.
DBAddDropsLast(d, events) ==
  LET d1 == [d EXCEPT !.writeBuffer = @ \o SubSeq(events, 1, Len(events) - 1)]
  IN  IF Len(d1.writeBuffer) >= WRITE_BUFFER_SIZE THEN flushBuffer(d1)
      ELSE [d1 EXCEPT !.writeTimer = TRUE]

\* DB.add(events): buffered; written at once from WRITE_BUFFER_SIZE on,
\* otherwise the write timer is armed.
DBAdd(d, events) ==
  LET d1 == [d EXCEPT !.writeBuffer = @ \o events]
  IN  IF Len(d1.writeBuffer) >= WRITE_BUFFER_SIZE THEN flushBuffer(d1)
      ELSE [d1 EXCEPT !.writeTimer = TRUE]

\* scheduleFlush's timeout: flushBuffer(), writeTimer = null.
WriteTimerFire ==
  /\ db.writeTimer
  /\ db' = [flushBuffer(db) EXCEPT !.writeTimer = FALSE]
  /\ ghost' = [ghost EXCEPT !.stored = @ \cup (SeqSet(db.writeBuffer) \cap db'.table),
                            !.last = Step("write", << >>, << >>)]
  /\ UNCHANGED <<plugins, hookLog,
                 config, queue, priorityQueue, dedupe, stats, timer, timeouts,
                 retryTimers, offlineCheckTimer, cachedPressure, flights,
                 restore>>

\* updateStats that counts a failure as a success as well.
updateStatsCountsBoth(st, success) ==
  IF success THEN [st EXCEPT !.sendSuccessCount = @ + 1]
  ELSE [st EXCEPT !.sendFailCount = @ + 1, !.sendSuccessCount = @ + 1]

\* updateStats(sendTime, success), without the times.
updateStats(st, success) ==
  IF success THEN [st EXCEPT !.sendSuccessCount = @ + 1]
  ELSE [st EXCEPT !.sendFailCount = @ + 1]

(***************************************************************************)
(* flush() after sender.send has answered.                                 *)
(***************************************************************************)
RemoveAt(s, i) == SubSeq(s, 1, i - 1) \o SubSeq(s, i + 1, Len(s))

\* The flush is over: this.timer = null.
FlushEnd(i) ==
  /\ flights' = RemoveAt(flights, i)
  /\ timer' = FALSE
  /\ timeouts' = TimerNull(timeouts)

\* Success: updateStats, then handleSendSuccess awaits DB.forceFlush() and
\* DB.clear(). With an empty write buffer forceFlush awaits nothing and
\* DB.clear() is issued in the same task.
SendSuccess(i) ==
  /\ flights[i].phase = "sending"
  /\ stats' = updateStats(stats, TRUE)
  /\ IF db.writeBuffer = << >>
       THEN /\ db' = [db EXCEPT !.writeTimer = FALSE, !.table = {}]
            /\ flights' = [flights EXCEPT ![i].phase = "finishing"]
     ELSE /\ db' = [flushBuffer(db) EXCEPT !.writeTimer = FALSE]
          /\ flights' = [flights EXCEPT ![i].phase = "flushing"]
  /\ ghost' = [ghost EXCEPT !.consecutiveFails = 0,
                            !.delivered = Bump(@, flights[i].batch),
                            !.stored = @ \cup (SeqSet(db.writeBuffer)
                                               \cap flushBuffer(db).table),
                            !.last = Step("sent", flights[i].batch, << >>)]
  /\ UNCHANGED <<plugins, hookLog,
                 config, queue, priorityQueue, dedupe, timer, timeouts,
                 retryTimers, offlineCheckTimer, cachedPressure, restore>>

\* DB.forceFlush() has resolved: DB.clear() is issued.
ForceFlushDone(i) ==
  /\ flights[i].phase = "flushing"
  /\ db' = [db EXCEPT !.table = {}]
  /\ flights' = [flights EXCEPT ![i].phase = "finishing"]
  /\ ghost' = [ghost EXCEPT !.last = Step("cleared", << >>, << >>)]
  /\ UNCHANGED <<plugins, hookLog,
                 config, queue, priorityQueue, dedupe, stats, timer, timeouts,
                 retryTimers, offlineCheckTimer, cachedPressure, restore>>

\* The last awaited store operation has resolved.
FlushFinish(i) ==
  /\ flights[i].phase = "finishing"
  /\ FlushEnd(i)
  /\ ghost' = [ghost EXCEPT !.last = Step("finished", << >>, << >>)]
  /\ UNCHANGED <<plugins, hookLog,
                 config, queue, priorityQueue, dedupe, stats, retryTimers,
                 offlineCheckTimer, cachedPressure, db, restore>>

\* Failure with offline mode: handleSendFailure hands the batch to DB.add.
SendFailOffline(i) ==
  /\ flights[i].phase = "sending"
  /\ config.offlineEnabled
  /\ stats' = updateStats(stats, FALSE)
  /\ db' = DBAdd(db, flights[i].batch)
  /\ IF Len(db.writeBuffer) + Len(flights[i].batch) >= WRITE_BUFFER_SIZE
       THEN /\ flights' = [flights EXCEPT ![i].phase = "finishing"]
            /\ UNCHANGED <<plugins, hookLog, timer, timeouts>>
     ELSE FlushEnd(i)
  /\ ghost' = [ghost EXCEPT !.consecutiveFails = @ + 1,
                            !.fails = @ + 1,
                            !.stored = @ \cup (SeqSet(db.writeBuffer \o flights[i].batch)
                                               \cap db'.table),
                            !.last = Step("persisted", flights[i].batch, << >>)]
  /\ UNCHANGED <<plugins, hookLog,
                 config, queue, priorityQueue, dedupe, retryTimers,
                 offlineCheckTimer, cachedPressure, restore>>

\* Failure without offline mode: the retry timer is armed when
\* config.retryCount > 0, otherwise the batch is dropped.
SendFailRetry(i) ==
  /\ flights[i].phase = "sending"
  /\ ~config.offlineEnabled
  /\ stats' = updateStats(stats, FALSE)
  /\ retryTimers' =
       IF retryCount > 0
         THEN Append(retryTimers,
                     [batch |-> flights[i].batch,
                      delay |-> retryDelay(stats.sendFailCount + 1),
                      fails |-> ghost.fails + 1,
                      consecutive |-> ghost.consecutiveFails + 1])
       ELSE retryTimers
  /\ FlushEnd(i)
  /\ ghost' = [ghost EXCEPT !.consecutiveFails = @ + 1,
                            !.fails = @ + 1,
                            !.last = Step("failed", flights[i].batch, << >>)]
  /\ UNCHANGED <<plugins, hookLog,
                 config, queue, priorityQueue, dedupe, offlineCheckTimer,
                 cachedPressure, db, restore>>

\* The retry timer's callback: the batch goes back to the front of the
\* queue and into the dedupe cache, and schedule() is called.
RetryFire(i) ==
  LET batch == retryTimers[i].batch
      q1 == batch \o queue
      s == schedule(q1, cachedPressure, timer, timeouts)
  IN  /\ retryTimers' = RemoveAt(retryTimers, i)
      /\ queue' = q1
      /\ dedupe' = DedupeAddAll(dedupe, batch)
      /\ cachedPressure' = s.cp
      /\ timer' = s.timer
      /\ timeouts' = s.timeouts
      /\ ghost' = [ghost EXCEPT !.requeued = Bump(@, batch),
                                !.last = Step("requeued", batch, << >>)]
      /\ UNCHANGED <<plugins, hookLog,
                     config, priorityQueue, stats, offlineCheckTimer, flights,
                     db, restore>>

(***************************************************************************)
(* restoreOfflineEvents(), called by the offline-check interval. One call  *)
(* runs at a time: the interval is 30 s.                                   *)
(***************************************************************************)
Idle == [phase |-> "idle", events |-> << >>, due |-> restore.due]

\* The interval fires: DB.all() is issued.
RestoreStart ==
  /\ offlineCheckTimer
  /\ restore.phase = "idle"
  /\ restore' = [phase |-> "reading", events |-> toArray(db.table),
                  due |-> ghost.stored]
  /\ ghost' = [ghost EXCEPT !.last = Step("restore", << >>, << >>)]
  /\ UNCHANGED <<plugins, hookLog,
                 config, queue, priorityQueue, dedupe, stats, timer, timeouts,
                 retryTimers, offlineCheckTimer, cachedPressure, flights, db>>

\* DB.all() has answered: the records not in the queue are deleted from the
\* store (DB.delete is awaited); if every record is in the queue the store
\* is cleared.
RestoreRead ==
  /\ restore.phase = "reading"
  /\ LET offlineEvents == restore.events
         queueEventKeys == {generateEventKey(queue[k]) : k \in 1..Len(queue)}
         eventsToAdd ==
           SelectSeq(offlineEvents,
                     LAMBDA o : generateEventKey(o) \notin queueEventKeys)
     IN  IF offlineEvents = << >>
           THEN /\ restore' = Idle
                /\ db' = db
         ELSE IF eventsToAdd # << >>
           THEN /\ restore' = [phase |-> "deleting", events |-> eventsToAdd,
                                due |-> restore.due]
                /\ db' = [db EXCEPT !.table = bulkDelete(@, SeqIds(eventsToAdd))]
         ELSE /\ restore' = Idle
              /\ db' = [db EXCEPT !.table = {}]
  /\ ghost' = [ghost EXCEPT !.last = Step("read", restore.events, << >>)]
  /\ UNCHANGED <<plugins, hookLog,
                 config, queue, priorityQueue, dedupe, stats, timer, timeouts,
                 retryTimers, offlineCheckTimer, cachedPressure, flights>>

\* DB.delete has resolved: the records are put at the front of the queue
\* and into the dedupe cache, and schedule() is called.
RestoreFinish ==
  /\ restore.phase = "deleting"
  /\ LET eventsToAdd == restore.events
         q1 == eventsToAdd \o queue
         s == schedule(q1, cachedPressure, timer, timeouts)
     IN  /\ queue' = q1
         /\ dedupe' = DedupeAddAll(dedupe, eventsToAdd)
         /\ cachedPressure' = s.cp
         /\ timer' = s.timer
         /\ timeouts' = s.timeouts
         /\ ghost' = [ghost EXCEPT !.recovered = @ \cup SeqSet(eventsToAdd),
                                   !.last = Step("restored", eventsToAdd, << >>)]
  /\ restore' = Idle
  /\ UNCHANGED <<plugins, hookLog,
                 config, priorityQueue, stats, retryTimers, offlineCheckTimer,
                 flights, db>>

(***************************************************************************)
(* clearTimers()                                                           *)
(***************************************************************************)
\* clearTimers() without the retry timers.
clearTimersKeepsRetries(t, to, rt, oct) ==
  [timer |-> FALSE,
   timeouts |-> IF t THEN [to EXCEPT !.held = FALSE] ELSE to,
   retryTimers |-> rt,
   offlineCheckTimer |-> FALSE]

\* The timer fields and the pending callbacks after clearTimers():
\* clearTimeout(this.timer) cancels the timeout whose handle the field
\* holds; a timeout that has fired or whose handle was overwritten is not
\* reached.
clearTimers(t, to, rt, oct) ==
  [timer |-> FALSE,
   timeouts |-> IF t THEN [to EXCEPT !.held = FALSE] ELSE to,
   retryTimers |-> << >>,
   offlineCheckTimer |-> FALSE]

ClearTimers ==
  /\ ghost.clears > 0
  /\ LET c == clearTimers(timer, timeouts, retryTimers, offlineCheckTimer)
     IN  /\ timer' = c.timer
         /\ timeouts' = c.timeouts
         /\ retryTimers' = c.retryTimers
         /\ offlineCheckTimer' = c.offlineCheckTimer
  /\ ghost' = [ghost EXCEPT
                 !.clears = @ - 1,
                 !.teardown = IF flights = << >> THEN "clean" ELSE "none",
                 !.last = Step("clearTimers", << >>, <<ghost.last.op>>)]
  /\ UNCHANGED <<plugins, hookLog,
                 config, queue, priorityQueue, dedupe, stats, cachedPressure,
                 flights, db, restore>>

\* PRESSURE_CACHE_TTL has passed since the pressure was cached.
ExpireCache ==
  /\ cachedPressure.fresh
  /\ cachedPressure' = [cachedPressure EXCEPT !.fresh = FALSE]
  /\ UNCHANGED <<plugins, hookLog,
                 config, queue, priorityQueue, dedupe, stats, timer, timeouts,
                 retryTimers, offlineCheckTimer, flights, db, restore, ghost>>

Next ==
  \/ \E offline \in BOOLEAN : InitManager(offline)
  \/ \E e \in Events : Push(e)
  \/ TimerFire
  \/ \E i \in 1..Len(flights) : SendSuccess(i)
  \/ \E i \in 1..Len(flights) : ForceFlushDone(i)
  \/ \E i \in 1..Len(flights) : FlushFinish(i)
  \/ \E i \in 1..Len(flights) : SendFailOffline(i)
  \/ \E i \in 1..Len(flights) : SendFailRetry(i)
  \/ \E i \in 1..Len(retryTimers) : RetryFire(i)
  \/ WriteTimerFire
  \/ RestoreStart
  \/ RestoreRead
  \/ RestoreFinish
  \/ ExpireCache

Spec == Init /\ [][Next]_vars

(***************************************************************************)
(* The manager with clearTimers() called at any moment.                    *)
(***************************************************************************)
InitTeardown ==
  Manager(NoConfig, [NewGhost(TeardownPushes, TeardownSends, FALSE)
                       EXCEPT !.clears = MaxClears])

NextTeardown ==
  \/ Next
  \/ ClearTimers

SpecTeardown == InitTeardown /\ [][NextTeardown]_vars

(***************************************************************************)
(* Pushes back to back on an initialised manager: no timer fires and no    *)
(* send is answered in between.                                            *)
(***************************************************************************)
InitBackToBack ==
  \E offline \in BOOLEAN :
    Manager(Configured(offline), NewGhost(MaxPushes + 1, MaxPushes + 1, TRUE))

NextBackToBack ==
  \/ \E e \in Events : Push(e)
  \/ ExpireCache

SpecBackToBack == InitBackToBack /\ [][NextBackToBack]_vars

(***************************************************************************)
(* Failing and succeeding sends without offline mode, long enough for the  *)
(* failure count to pass MAX_RETRY_COUNT.                                  *)
(***************************************************************************)
InitBackoff ==
  Manager(Configured(FALSE), NewGhost(BackoffPushes, BackoffSends, FALSE))

NextBackoff ==
  \/ \E e \in Events : Push(e)
  \/ TimerFire
  \/ \E i \in 1..Len(flights) : SendSuccess(i)
  \/ \E i \in 1..Len(flights) : FlushFinish(i)
  \/ \E i \in 1..Len(flights) : SendFailRetry(i)
  \/ \E i \in 1..Len(retryTimers) : RetryFire(i)

SpecBackoff == InitBackoff /\ [][NextBackoff]_vars

(***************************************************************************)
(* The PriorityQueue on its own: push(event, priority) with any lane and   *)
(* getBatch(size).                                                         *)
(***************************************************************************)
InitLanes == Manager(NoConfig, NewGhost(MaxLanePushes, 0, FALSE))

LanePush(e, priority) ==
  /\ ghost.pushes > 0
  /\ priorityQueue' = PQPush(priorityQueue, e, priority)
  /\ ghost' = [ghost EXCEPT !.pushes = @ - 1,
                            !.last = Step("lane", << >>, << >>)]
  /\ UNCHANGED <<plugins, hookLog,
                 config, queue, dedupe, stats, timer, timeouts, retryTimers,
                 offlineCheckTimer, cachedPressure, flights, db, restore>>

LaneGetBatch(size) ==
  /\ LET r == PQGetBatch(priorityQueue, size)
     IN  /\ priorityQueue' = r.pq
         /\ ghost' = [ghost EXCEPT !.last = Step("getBatch", r.batch, <<size>>)]
  /\ UNCHANGED <<plugins, hookLog,
                 config, queue, dedupe, stats, timer, timeouts, retryTimers,
                 offlineCheckTimer, cachedPressure, flights, db, restore>>

NextLanes ==
  \/ \E e \in Events, priority \in {"high", "normal", "low"} :
       LanePush(e, priority)
  \/ \E size \in 0..MaxLanePushes : LaneGetBatch(size)

SpecLanes == InitLanes /\ [][NextLanes]_vars

(***************************************************************************)
(* Offline mode with two events of one lane: failed sends are persisted    *)
(* and recovered while fresh events are pushed.                            *)
(***************************************************************************)
InitRecovery ==
  Manager(Configured(TRUE), NewGhost(RecoveryPushes, RecoverySends, FALSE))

NextRecovery ==
  \/ \E e \in RecoveryEvents : Push(e)
  \/ TimerFire
  \/ \E i \in 1..Len(flights) : SendSuccess(i)
  \/ \E i \in 1..Len(flights) : ForceFlushDone(i)
  \/ \E i \in 1..Len(flights) : FlushFinish(i)
  \/ \E i \in 1..Len(flights) : SendFailOffline(i)
  \/ WriteTimerFire
  \/ RestoreStart
  \/ RestoreRead
  \/ RestoreFinish
  \/ ExpireCache

SpecRecovery == InitRecovery /\ [][NextRecovery]_vars

(***************************************************************************)
(* flush() with plugins registered, seen from the hooks: the batch is one  *)
(* event "e", a hook is absent ("none"), returns its input with its        *)
(* plugin's name appended ("ok") or throws ("throw"). thrown tells whether *)
(* an exception leaves the function.                                       *)
(***************************************************************************)
HookKinds == {"none", "ok", "throw"}

HookPlugin(name) ==
  [name : {name}, priority : {0, 1}, enabled : BOOLEAN,
   beforeSend : HookKinds, afterSend : HookKinds]

\* The registry in insertion order.
Registries == {<<a, b>> : a \in HookPlugin("p"), b \in HookPlugin("q")}

\* applyBeforeSendHooks that lets the exception of a hook out.
RECURSIVE applyBeforeSendHooksNoCatch(_, _, _)
applyBeforeSendHooksNoCatch(sorted, result, calls) ==
  IF sorted = << >> THEN [result |-> result, calls |-> calls, thrown |-> FALSE]
  ELSE LET plugin == Head(sorted)
           called == Append(calls, [name |-> plugin.name, input |-> result])
       IN  IF plugin.beforeSend = "none"
             THEN applyBeforeSendHooksNoCatch(Tail(sorted), result, calls)
           ELSE IF plugin.beforeSend = "ok"
             THEN applyBeforeSendHooksNoCatch(Tail(sorted),
                                              Append(result, plugin.name), called)
           ELSE [result |-> result, calls |-> called, thrown |-> TRUE]

\* applyBeforeSendHooks: the loop over the sorted plugins, from result and
\* the calls made so far.
RECURSIVE applyBeforeSendHooks(_, _, _)
applyBeforeSendHooks(sorted, result, calls) ==
  IF sorted = << >> THEN [result |-> result, calls |-> calls, thrown |-> FALSE]
  ELSE LET plugin == Head(sorted)
           called == Append(calls, [name |-> plugin.name, input |-> result])
       IN  IF plugin.beforeSend = "none"
             THEN applyBeforeSendHooks(Tail(sorted), result, calls)
           ELSE IF plugin.beforeSend = "ok"
             THEN applyBeforeSendHooks(Tail(sorted),
                                       Append(result, plugin.name), called)
           ELSE applyBeforeSendHooks(Tail(sorted), result, called)

\* applyAfterSendHooks: the loop over plugins.getAll().
RECURSIVE applyAfterSendHooks(_, _)
applyAfterSendHooks(all, calls) ==
  IF all = << >> THEN [calls |-> calls, thrown |-> FALSE]
  ELSE IF Head(all).afterSend = "none"
    THEN applyAfterSendHooks(Tail(all), calls)
  ELSE applyAfterSendHooks(Tail(all), Append(calls, Head(all).name))

\* flush() from applyBeforeSendHooks on: what was sent, the hook calls
\* made, the stats and the handling of the result.
flushHooks(ps, success, st) ==
  LET before == applyBeforeSendHooks(pluginsSort(ps), <<"e">>, << >>)
      st1 == IF success THEN [st EXCEPT !.sendSuccessCount = @ + 1]
             ELSE [st EXCEPT !.sendFailCount = @ + 1]
      after == applyAfterSendHooks(ps, << >>)
  IN  IF before.thrown
        THEN [sent |-> << >>, beforeCalls |-> before.calls,
              afterCalls |-> << >>, stats |-> st, handled |-> "nothing"]
      ELSE IF after.thrown
        THEN [sent |-> before.result, beforeCalls |-> before.calls,
              afterCalls |-> after.calls, stats |-> st1, handled |-> "nothing"]
      ELSE [sent |-> before.result, beforeCalls |-> before.calls,
            afterCalls |-> after.calls, stats |-> st1,
            handled |-> IF success THEN "cleared"
                        ELSE IF config.offlineEnabled THEN "persisted"
                        ELSE IF retryCount > 0 THEN "retry"
                        ELSE "dropped"]

InitHooks ==
  \E offline \in BOOLEAN :
    Manager(Configured(offline), NewGhost(0, HookSends, FALSE))

FlushHooks(ps, success) ==
  /\ ghost.sends > 0
  /\ LET o == flushHooks(ps, success, stats)
     IN  /\ stats' = o.stats
         /\ ghost' = [ghost EXCEPT !.sends = @ - 1,
                                   !.last = Step("hooks", o, <<ps, success>>)]
  /\ UNCHANGED <<plugins, hookLog,
                 config, queue, priorityQueue, dedupe, timer, timeouts,
                 retryTimers, offlineCheckTimer, cachedPressure, flights, db,
                 restore>>

NextHooks == \E ps \in Registries, success \in BOOLEAN : FlushHooks(ps, success)

SpecHooks == InitHooks /\ [][NextHooks]_vars

(***************************************************************************)
(* Backpressure on its own: getDynamicBatchSize() and getDynamicInterval() *)
(* for two queues of n1 and n2 events under one configuration, the         *)
(* pressure computed afresh. The batch intervals are even, so that         *)
(* interval * 0.5 and interval * 1.5 are integers.                         *)
(***************************************************************************)
PressureQueueSize == 10

Configs ==
  [batchSize : {2, 20, 100}, batchInterval : {100, 1000, 5000},
   maxQueueSize : {PressureQueueSize}]

\* The batch size getDynamicBatchSize() arrives at before it caps it with
\* the queue length; n / cfg.maxQueueSize is the pressure.
adjustedBatchSize(cfg, n) ==
  IF n * 100 > QUEUE_PRESSURE_MEDIUM * cfg.maxQueueSize
    THEN Max((cfg.batchSize * 8) \div 10, MIN_BATCH_SIZE)
  ELSE IF n * 100 < QUEUE_PRESSURE_LOW * cfg.maxQueueSize
    THEN Min((cfg.batchSize * 12 + 9) \div 10, MAX_BATCH_SIZE)
  ELSE cfg.batchSize

\* getDynamicInterval()
dynamicInterval(cfg, n) ==
  IF n * 100 > QUEUE_PRESSURE_MEDIUM * cfg.maxQueueSize
    THEN Max(cfg.batchInterval \div 2, MIN_BATCH_INTERVAL)
  ELSE IF n * 100 < QUEUE_PRESSURE_LOW * cfg.maxQueueSize
    THEN Min((cfg.batchInterval * 3) \div 2, MAX_BATCH_INTERVAL)
  ELSE cfg.batchInterval

Selected(cfg, n) ==
  [n |-> n,
   adjusted |-> adjustedBatchSize(cfg, n),
   batchSize |-> Min(adjustedBatchSize(cfg, n), n),
   interval |-> dynamicInterval(cfg, n)]

InitPressure == Manager(NoConfig, NewGhost(0, 0, FALSE))

Compare(cfg, n1, n2) ==
  /\ ghost' = [ghost EXCEPT
                 !.last = Step("pressure", cfg,
                               <<Selected(cfg, n1), Selected(cfg, n2)>>)]
  /\ UNCHANGED <<plugins, hookLog,
                 config, queue, priorityQueue, dedupe, stats, timer, timeouts,
                 retryTimers, offlineCheckTimer, cachedPressure, flights, db,
                 restore>>

NextPressure ==
  \E cfg \in Configs, n1, n2 \in 0..PressureQueueSize : Compare(cfg, n1, n2)

SpecPressure == InitPressure /\ [][NextPressure]_vars

(***************************************************************************)
(* The Sender on its own (queue/sender.ts): select() and send(). The       *)
(* answers of the browser's mechanisms are the environment's choice: ok[k] *)
(* is what the k-th attempt of the call returns.                           *)
(***************************************************************************)
NetworkTypes == {"unknown", "online", "offline", "slow"}

BodySizes == {SMALL_DATA_THRESHOLD - 1, SMALL_DATA_THRESHOLD,
              BEACON_SIZE_LIMIT, BEACON_SIZE_LIMIT + 1}

Answers == [1..4 -> BOOLEAN]

\* select that looks at the size before the network.
selectSizeFirst(networkType, bodySize) ==
  IF bodySize > BEACON_SIZE_LIMIT THEN "fetch"
  ELSE IF bodySize < SMALL_DATA_THRESHOLD THEN "beacon"
  ELSE IF networkType = "offline" THEN "beacon"
  ELSE "fetch"

\* SendStrategySelector.select
select(networkType, bodySize) ==
  IF networkType = "offline" THEN "beacon"
  ELSE IF networkType = "slow" THEN "fetch"
  ELSE IF bodySize > BEACON_SIZE_LIMIT THEN "fetch"
  ELSE IF bodySize < SMALL_DATA_THRESHOLD THEN "beacon"
  ELSE "fetch"

\* One call of sendWithBeacon, sendWithFetch or sendWithXHR.
Attempt(s, mechanism, ok) ==
  [success |-> ok[Len(s.tried) + 1], tried |-> Append(s.tried, mechanism)]

\* Sender.send: the result it returns and, as history, the mechanisms it
\* has called in order.
SenderSend(networkType, bodySize, ok) ==
  LET strategy == select(networkType, bodySize)
      s0 == [success |-> FALSE, tried |-> << >>]
      s1 == IF strategy = "beacon"
              THEN LET b == Attempt(s0, "beacon", ok)
                   IN  IF ~b.success THEN Attempt(b, "fetch", ok) ELSE b
            ELSE s0
      s2 == IF strategy = "fetch" \/ ~s1.success
              THEN LET f == Attempt(s1, "fetch", ok)
                   IN  IF ~f.success THEN Attempt(f, "xhr", ok) ELSE f
            ELSE s1
  IN  [success |-> s2.success, strategy |-> strategy, tried |-> s2.tried]

InitSender == Manager(NoConfig, NewGhost(0, 0, FALSE))

Send(networkType, bodySize, ok) ==
  /\ ghost' = [ghost EXCEPT
                 !.last = Step("send", SenderSend(networkType, bodySize, ok),
                               <<networkType, bodySize, ok>>)]
  /\ UNCHANGED <<plugins, hookLog,
                 config, queue, priorityQueue, dedupe, stats, timer, timeouts,
                 retryTimers, offlineCheckTimer, cachedPressure, flights, db,
                 restore>>

NextSender ==
  \E networkType \in NetworkTypes, bodySize \in BodySizes, ok \in Answers :
    Send(networkType, bodySize, ok)

SpecSender == InitSender /\ [][NextSender]_vars

(***************************************************************************)
(* Plugins.register(plugin). A plugin is given by its name, the names it   *)
(* depends on and conflicts with, and the enabled flag, lifecycle and      *)
(* priority the caller's object carries (priority 0 for a missing one).    *)
(***************************************************************************)
PluginNames == {"p", "q"}

Lifecycles == {"active"}

Candidates ==
  [name : PluginNames, dependencies : SUBSET PluginNames,
   conflicts : SUBSET PluginNames, enabled : BOOLEAN, lifecycle : Lifecycles,
   priority : {0, 1}]

\* this.plugins.has(name)
pluginsHas(registered, name) ==
  \E i \in 1..Len(registered) : registered[i].name = name

\* register without the check of the conflicts.
registerIgnoresConflicts(reg, plugin) ==
  IF pluginsHas(reg.registered, plugin.name) THEN [ok |-> FALSE, plugins |-> reg]
  ELSE IF \E dep \in plugin.dependencies : ~pluginsHas(reg.registered, dep)
    THEN [ok |-> FALSE, plugins |-> reg]
  ELSE [ok |-> TRUE,
        plugins |-> [reg EXCEPT
                       !.registered = Append(@, [plugin EXCEPT
                                                   !.lifecycle = "idle",
                                                   !.enabled = TRUE]),
                       !.sortedPluginsCache = NoPlugins.sortedPluginsCache]]

\* register(plugin): the value returned and the registry left behind.
register(reg, plugin) ==
  IF pluginsHas(reg.registered, plugin.name) THEN [ok |-> FALSE, plugins |-> reg]
  ELSE IF \E dep \in plugin.dependencies : ~pluginsHas(reg.registered, dep)
    THEN [ok |-> FALSE, plugins |-> reg]
  ELSE IF \E conflict \in plugin.conflicts : pluginsHas(reg.registered, conflict)
    THEN [ok |-> FALSE, plugins |-> reg]
  ELSE [ok |-> TRUE,
        plugins |-> [reg EXCEPT
                       !.registered = Append(@, [plugin EXCEPT
                                                   !.lifecycle = "idle",
                                                   !.enabled = TRUE]),
                       !.sortedPluginsCache = NoPlugins.sortedPluginsCache]]

\* Plugins.sort() over the registry, as track() caches it.
SortPlugins ==
  /\ hookLog.calls > 0
  /\ ~plugins.sortedPluginsCache.valid
  /\ plugins' = [plugins EXCEPT !.sortedPluginsCache =
                   [valid |-> TRUE, list |-> pluginsSort(plugins.registered)]]
  /\ hookLog' = [hookLog EXCEPT !.last = [op |-> "sort"]]
  /\ UNCHANGED <<config, queue, priorityQueue, dedupe, stats, timer, timeouts,
                 retryTimers, offlineCheckTimer, cachedPressure, flights, db,
                 restore, ghost>>

Register(plugin) ==
  /\ hookLog.calls > 0
  /\ plugins' = register(plugins, plugin).plugins
  /\ hookLog' = [calls |-> hookLog.calls - 1,
                 last |-> [op |-> "register", plugin |-> plugin,
                           ok |-> register(plugins, plugin).ok]]
  /\ UNCHANGED <<config, queue, priorityQueue, dedupe, stats, timer, timeouts,
                 retryTimers, offlineCheckTimer, cachedPressure, flights, db,
                 restore, ghost>>

InitRegister ==
  /\ plugins = NoPlugins
  /\ hookLog = NewLog(MaxRegisters)
  /\ ManagerFields(NoConfig, NewGhost(0, 0, FALSE))

NextRegister ==
  \/ \E plugin \in Candidates : Register(plugin)
  \/ SortPlugins

SpecRegister == InitRegister /\ [][NextRegister]_vars

(***************************************************************************)
(* track(event): the plugins' onTrack hooks, the beforeSend option, push   *)
(* and the onTracked hooks. An onTrack hook is absent ("none"), returns    *)
(* the payload ("ok"), returns null ("null") or throws ("throw"); an       *)
(* onTracked hook is absent or present; options.beforeSend is absent,      *)
(* returns the payload or returns null. The identifier track() generates   *)
(* is new, so the event is one that was never pushed.                      *)
(***************************************************************************)
TrackKinds == {"none", "ok", "null", "throw"}

TrackPlugin(name) ==
  [name : {name}, priority : {0, 1}, enabled : BOOLEAN,
   onTrack : TrackKinds, onTracked : {"none", "ok"}]

TrackRegistries == {<<a, b>> : a \in TrackPlugin("p"), b \in TrackPlugin("q")}

\* The loop of track() that goes on after an onTrack hook returned null.
RECURSIVE trackHooksIgnoresNull(_, _, _)
trackHooksIgnoresNull(sorted, calls, notify) ==
  IF sorted = << >>
    THEN [vetoed |-> FALSE, onTrack |-> calls, notify |-> notify]
  ELSE LET p == Head(sorted)
       IN trackHooksIgnoresNull(
            Tail(sorted),
            IF p.onTrack = "none" THEN calls
            ELSE Append(calls, [name |-> p.name, result |-> p.onTrack]),
            IF p.onTracked = "none" THEN notify ELSE Append(notify, p.name))

\* The loop of track() over the sorted plugins: the onTrack calls made,
\* whether one returned null, and the plugins to notify.
RECURSIVE trackHooks(_, _, _)
trackHooks(sorted, calls, notify) ==
  IF sorted = << >>
    THEN [vetoed |-> FALSE, onTrack |-> calls, notify |-> notify]
  ELSE LET p == Head(sorted)
       IN IF p.onTrack = "null"
            THEN [vetoed |-> TRUE,
                  onTrack |-> Append(calls, [name |-> p.name, result |-> "null"]),
                  notify |-> notify]
          ELSE trackHooks(
                 Tail(sorted),
                 IF p.onTrack = "none" THEN calls
                 ELSE Append(calls, [name |-> p.name, result |-> p.onTrack]),
                 IF p.onTracked = "none" THEN notify ELSE Append(notify, p.name))

\* shouldSend(event) with the default sample rate and no whitelist.
shouldSend(e) == e.event \notin plugins.blacklist

TrackLog(e, onTrack, pushed, onTracked) ==
  [calls |-> hookLog.calls - 1,
   last |-> [op |-> "track", e |-> e, onTrack |-> onTrack, pushed |-> pushed,
             onTracked |-> onTracked]]

Track(e) ==
  /\ hookLog.calls > 0
  /\ ghost.admitted[e] = 0
  /\ IF ~shouldSend(e)
       THEN /\ hookLog' = TrackLog(e, << >>, FALSE, << >>)
            /\ UNCHANGED <<plugins, config, queue, priorityQueue, dedupe, stats,
                           timer, timeouts, retryTimers, offlineCheckTimer,
                           cachedPressure, flights, db, restore, ghost>>
     ELSE LET allPlugins == IF plugins.sortedPluginsCache.valid
                              THEN plugins.sortedPluginsCache.list
                            ELSE pluginsSort(plugins.registered)
              t == trackHooks(allPlugins, << >>, << >>)
          IN /\ plugins' = [plugins EXCEPT !.sortedPluginsCache =
                              [valid |-> TRUE, list |-> allPlugins]]
             /\ IF t.vetoed \/ plugins.beforeSend = "null"
                  THEN /\ hookLog' = TrackLog(e, t.onTrack, FALSE, << >>)
                       /\ UNCHANGED <<config, queue, priorityQueue, dedupe,
                                      stats, timer, timeouts, retryTimers,
                                      offlineCheckTimer, cachedPressure,
                                      flights, db, restore, ghost>>
                ELSE /\ hookLog' = TrackLog(e, t.onTrack, TRUE, t.notify)
                     /\ push(e)

InitTrack ==
  /\ \E ps \in TrackRegistries, init \in BOOLEAN,
        beforeSend \in {"none", "ok", "null"}, blacklist \in {{}, {"click"}} :
       /\ ~init => beforeSend = "none" /\ blacklist = {}
       /\ plugins = [NoPlugins EXCEPT !.registered = ps,
                                      !.beforeSend = beforeSend,
                                      !.blacklist = blacklist]
       /\ ManagerFields(IF init THEN Configured(FALSE) ELSE NoConfig,
                        NewGhost(MaxTracks, TrackSends, FALSE))
  /\ hookLog = NewLog(MaxTracks)

NextTrack == \E e \in Events : Track(e)

SpecTrack == InitTrack /\ [][NextTrack]_vars

(***************************************************************************)
(* NetworkManager.update(): one reading of navigator. onLine is the        *)
(* platform flag, connection tells whether navigator.connection exists,    *)
(* and effectiveType, rtt and downlink are its readings, "missing" and 0   *)
(* standing for an undefined field. due is shouldUpdate().                 *)
(***************************************************************************)
EffectiveTypes == {"2g", "3g", "4g", "missing"}

Rtts == {0, 1000, 1001}

Downlinks == {0, 1, 2}

Navigators ==
  [onLine : BOOLEAN, connection : BOOLEAN, effectiveType : EffectiveTypes,
   rtt : Rtts, downlink : Downlinks]

\* The state the constructor sets.
NewNetworkState ==
  [type |-> "unknown", effectiveType |-> "4g", rtt |-> 0, downlink |-> 0]

\* update(): the state after the call.
update(state, nav, due) ==
  IF ~due THEN state
  ELSE LET type == IF nav.onLine THEN "online" ELSE "offline"
           effectiveType == IF nav.effectiveType = "missing" THEN "unknown"
                            ELSE nav.effectiveType
       IN IF ~nav.connection THEN [state EXCEPT !.type = type]
          ELSE [type |-> IF \/ effectiveType = "2g"
                            \/ nav.rtt > 1000
                            \/ nav.downlink < 1
                           THEN "slow" ELSE type,
                effectiveType |-> effectiveType,
                rtt |-> nav.rtt, downlink |-> nav.downlink]

InitNetwork ==
  Manager(NoConfig,
          [NewGhost(0, 0, FALSE) EXCEPT
             !.last = Step("network", NewNetworkState, << >>)])

Update(nav, due) ==
  /\ ghost' = [ghost EXCEPT
                 !.last = Step("update", update(ghost.last.e, nav, due),
                               <<nav, due>>)]
  /\ UNCHANGED <<plugins, hookLog,
                 config, queue, priorityQueue, dedupe, stats, timer, timeouts,
                 retryTimers, offlineCheckTimer, cachedPressure, flights, db,
                 restore>>

NextNetwork == \E nav \in Navigators, due \in BOOLEAN : Update(nav, due)

SpecNetwork == InitNetwork /\ [][NextNetwork]_vars

(***************************************************************************)
(* The reads of the NetworkManager (getState, getType, isOnline,           *)
(* isOffline, isSlow) under a clock: each calls update(), which samples    *)
(* navigator when shouldUpdate() allows. now() is Date.now(), which is not *)
(* below checkInterval in any run; the platform may change between reads.  *)
(***************************************************************************)
ClockNavigators ==
  {nav \in Navigators :
     nav.rtt = 0 /\ nav.downlink = 2 /\ nav.effectiveType \in {"2g", "4g"}}

Ticks == {1, NETWORK_CHECK_INTERVAL - 1, NETWORK_CHECK_INTERVAL}

\* shouldUpdate that allows every read to sample.
shouldUpdateAlways(lastCheckTime, nowTime) == nowTime - lastCheckTime >= 0

\* shouldUpdate()
shouldUpdate(lastCheckTime, nowTime) ==
  nowTime - lastCheckTime >= NETWORK_CHECK_INTERVAL

\* One read at nowTime: update() with lastCheckTime kept in the state.
read(net, nav, nowTime) ==
  IF shouldUpdate(net.lastCheckTime, nowTime)
    THEN [state |-> update(net.state, nav, TRUE), lastCheckTime |-> nowTime]
  ELSE net

\* The clock, the advances it may still make, and the time and answer of
\* the last read (-1: none yet).
NewClock(nowTime) ==
  [now |-> nowTime, ticks |-> MaxTicks, readAt |-> -1, readType |-> "unknown"]

InitClock ==
  Manager(NoConfig,
          [NewGhost(0, 0, FALSE) EXCEPT
             !.last = Step("network",
                           [state |-> NewNetworkState, lastCheckTime |-> 0],
                           NewClock(NETWORK_CHECK_INTERVAL))])

Tick(d) ==
  /\ ghost.last.removed.ticks > 0
  /\ ghost' = [ghost EXCEPT !.last.op = "tick",
                            !.last.removed.now = @ + d,
                            !.last.removed.ticks = @ - 1]
  /\ UNCHANGED <<plugins, hookLog,
                 config, queue, priorityQueue, dedupe, stats, timer, timeouts,
                 retryTimers, offlineCheckTimer, cachedPressure, flights, db,
                 restore>>

Read(nav) ==
  /\ LET nowTime == ghost.last.removed.now
         net == read(ghost.last.e, nav, nowTime)
     IN ghost' = [ghost EXCEPT
                    !.last = Step("read", net,
                                  [now |-> nowTime,
                                   ticks |-> ghost.last.removed.ticks,
                                   readAt |-> nowTime,
                                   readType |-> net.state.type])]
  /\ UNCHANGED <<plugins, hookLog,
                 config, queue, priorityQueue, dedupe, stats, timer, timeouts,
                 retryTimers, offlineCheckTimer, cachedPressure, flights, db,
                 restore>>

NextClock ==
  \/ \E d \in Ticks : Tick(d)
  \/ \E nav \in ClockNavigators : Read(nav)

SpecClock == InitClock /\ [][NextClock]_vars

(***************************************************************************)
(* An EventDedupe of capacity DedupeCapacity on its own: add, exists,      *)
(* remove, removeBatch and clear in any order. ghost.run lists the events  *)
(* of the cache from the least to the most recently added or found by      *)
(* exists.                                                                 *)
(***************************************************************************)
\* The event goes to the most recent end of the recency list.
Touch(run, e) == Append(SelectSeq(run, LAMBDA x : x # e), e)

\* The recency list without the events whose key left the cache.
Kept(run, dd) == SelectSeq(run, LAMBDA x : DedupeExists(dd, x))

InitDedupe == Manager(NoConfig, NewGhost(0, 0, FALSE))

Add(e) ==
  /\ dedupe' = LRUSet(dedupe, generateEventKey(e), DedupeCapacity)
  /\ ghost' = [ghost EXCEPT !.run = Kept(Touch(@, e), dedupe'),
                            !.last = Step("add", e,
                                          SelectSeq(dedupe, LAMBDA k :
                                                      ~LRUHas(dedupe', k)))]
  /\ UNCHANGED <<plugins, hookLog,
                 config, queue, priorityQueue, stats, timer, timeouts,
                 retryTimers, offlineCheckTimer, cachedPressure, flights, db,
                 restore>>

Exists(e) ==
  /\ dedupe' = dedupe
  /\ ghost' = [ghost EXCEPT
                 !.run = IF DedupeExists(dedupe, e) THEN Touch(@, e) ELSE @,
                 !.last = Step("exists", e, <<DedupeExists(dedupe, e)>>)]
  /\ UNCHANGED <<plugins, hookLog,
                 config, queue, priorityQueue, stats, timer, timeouts,
                 retryTimers, offlineCheckTimer, cachedPressure, flights, db,
                 restore>>

RemoveBatch(events) ==
  /\ dedupe' = DedupeRemoveBatch(dedupe, events)
  /\ ghost' = [ghost EXCEPT !.run = Kept(@, dedupe'),
                            !.last = Step("removeBatch", events, << >>)]
  /\ UNCHANGED <<plugins, hookLog,
                 config, queue, priorityQueue, stats, timer, timeouts,
                 retryTimers, offlineCheckTimer, cachedPressure, flights, db,
                 restore>>

Remove(e) ==
  /\ dedupe' = DedupeRemove(dedupe, e)
  /\ ghost' = [ghost EXCEPT !.run = Kept(@, dedupe'),
                            !.last = Step("remove", e, << >>)]
  /\ UNCHANGED <<plugins, hookLog,
                 config, queue, priorityQueue, stats, timer, timeouts,
                 retryTimers, offlineCheckTimer, cachedPressure, flights, db,
                 restore>>

Clear ==
  /\ dedupe' = << >>
  /\ ghost' = [ghost EXCEPT !.run = << >>, !.last = Step("clear", << >>, << >>)]
  /\ UNCHANGED <<plugins, hookLog,
                 config, queue, priorityQueue, stats, timer, timeouts,
                 retryTimers, offlineCheckTimer, cachedPressure, flights, db,
                 restore>>

NextDedupe ==
  \/ \E e \in Payloads : Add(e)
  \/ \E e \in Payloads : Exists(e)
  \/ \E e \in Payloads : Remove(e)
  \/ \E a, b \in Payloads : RemoveBatch(<<a, b>>)
  \/ Clear

SpecDedupe == InitDedupe /\ [][NextDedupe]_vars

(***************************************************************************)
(* The manager with one plugin registered whose beforeSend hook works on   *)
(* the batch: flush() hands what the hook returns to sender.send and to    *)
(* handleSendSuccess or handleSendFailure.                                 *)
(***************************************************************************)
ProcessedPushes == 2

ProcessedSends == 2

BatchPlugin ==
  [name : {"p"}, priority : {0}, enabled : BOOLEAN,
   beforeSend : {"same", "filter", "reorder", "throw"}]

InitProcessed ==
  \E plugin \in BatchPlugin, offline \in BOOLEAN :
    /\ plugins = [NoPlugins EXCEPT !.registered = <<plugin>>]
    /\ hookLog = NewLog(0)
    /\ ManagerFields(Configured(offline),
                     NewGhost(ProcessedPushes, ProcessedSends, FALSE))

NextProcessed ==
  \/ \E e \in Events : Push(e)
  \/ TimerFire
  \/ \E i \in 1..Len(flights) : SendSuccess(i)
  \/ \E i \in 1..Len(flights) : ForceFlushDone(i)
  \/ \E i \in 1..Len(flights) : FlushFinish(i)
  \/ \E i \in 1..Len(flights) : SendFailOffline(i)
  \/ \E i \in 1..Len(flights) : SendFailRetry(i)
  \/ \E i \in 1..Len(retryTimers) : RetryFire(i)
  \/ WriteTimerFire

SpecProcessed == InitProcessed /\ [][NextProcessed]_vars

(***************************************************************************)
(* Properties.                                                             *)
(***************************************************************************)
\* The step is a call of push(e).
PushOf(e) == ghost'.pushes = ghost.pushes - 1 /\ ghost'.last.e = e

\* No push was made before init().
InitialisedFirst == config.set /\ ghost.early = 0

\* C1: a push of an identity that is still in the queue is rejected, the
\* queue then holds exactly one copy of it, and no batch handed to the
\* transport holds two records of it.
C1_DuplicatePushRejected ==
  [][\A e \in Events :
       PushOf(e) /\ e \in SeqSet(queue)
         => /\ ghost'.last.op = "rejected"
            /\ Count(queue', e) = 1
            /\ \A i \in 1..Len(flights') : Count(flights'[i].batch, e) <= 1]_vars

\* C3 as stated: no identity is in more than one successful send.
C3_IdentitySentAtMostOnce == \A e \in Events : ghost.delivered[e] <= 1

\* C3 amended: an identity is in no more successful sends than the number
\* of times push() admitted it.
C3_AdmissionSentAtMostOnce ==
  \A e \in Events : ghost.delivered[e] <= ghost.admitted[e]

\* C3 witness: an identity admitted twice and delivered twice.
C3_Witness ==
  /\ \E e \in Events : ghost.admitted[e] = 2 /\ ghost.delivered[e] = 2

C5_QueueBounded ==
  InitialisedFirst /\ ~config.offlineEnabled => Len(queue) <= maxQueueSize

\* C10: with offline mode disabled an identity is re-queued at most
\* retryCount times for each time it was admitted.
C10_RetriesBounded ==
  ~config.offlineEnabled
    => \A e \in Events : ghost.requeued[e] <= retryCount * ghost.admitted[e]

\* No flush is in flight, no timer or store operation is pending: nothing
\* happens unless the application calls again.
Quiescent ==
  /\ flights = << >>
  /\ ~timeouts.held /\ timeouts.orphans = 0
  /\ retryTimers = << >>
  /\ restore.phase = "idle"
  /\ db.writeBuffer = << >> /\ ~db.writeTimer

\* C2: on an initialised manager whose sends all succeed, once every timer
\* has fired and every send has been answered no admitted event is left
\* waiting in the queue (an event left there is never handed to the
\* transport without a further push or flush).
C2_NothingStranded ==
  InitialisedFirst /\ stats.sendFailCount = 0 /\ Quiescent => queue = << >>

RECURSIVE Flat(_)
Flat(fl) == IF fl = << >> THEN << >> ELSE Head(fl).batch \o Flat(Tail(fl))

Distinct(s) == \A i, j \in 1..Len(s) : i # j => s[i] # s[j]

\* C6 as stated: after maxQueueSize + 1 distinct events pushed back to back
\* the queue holds the maxQueueSize most recently pushed ones.
C6_OverflowKeepsNewest ==
  Len(ghost.run) = maxQueueSize + 1 /\ Distinct(ghost.run)
    => queue = SubSeq(ghost.run, 2, Len(ghost.run))

\* C6 amended: with back-to-back pushes on an initialised manager the push
\* that raises the pressure above QUEUE_PRESSURE_HIGH flushes, so the queue
\* stays below maxQueueSize and nothing is evicted; every pushed event is
\* in the queue or in a batch handed to the sender, and an event handed to
\* the sender and not pushed again has no dedupe key, so pushing it again
\* is admitted.
C6_BackToBackFlushes ==
  /\ Len(queue) < maxQueueSize
  /\ ghost.last.removed = << >>
  /\ \A e \in Events : Count(Flat(flights) \o queue, e) = Count(ghost.run, e)
  /\ \A e \in SeqSet(Flat(flights)) \ SeqSet(queue) : ~DedupeExists(dedupe, e)

C6_Witness ==
  /\ Len(ghost.run) = maxQueueSize + 1 /\ Distinct(ghost.run)
  /\ Flat(flights) = SubSeq(ghost.run, 1, maxQueueSize)
  /\ queue = <<ghost.run[Len(ghost.run)]>>
  /\ ~DedupeExists(dedupe, ghost.run[1])

Rank(priority) ==
  CASE priority = "high" -> 1 [] priority = "normal" -> 2 [] priority = "low" -> 3

Lanes(pq) == pq.high \o pq.normal \o pq.low

IsSuffix(s, t) == Len(s) <= Len(t) /\ s = SubSeq(t, Len(t) - Len(s) + 1, Len(t))

\* C7: getBatch(n) returns the first min(n, size) events of the high lane
\* followed by the normal lane followed by the low lane, each lane in push
\* order, so no event of a lower lane precedes one of a higher lane, and
\* the returned events are removed from the front of their lanes.
C7_PriorityOrder ==
  [][ghost'.last.op = "getBatch" =>
       LET n == ghost'.last.removed[1]
           batch == ghost'.last.e
           k == Min(n, PQSize(priorityQueue))
       IN  /\ batch = SubSeq(Lanes(priorityQueue), 1, k)
           /\ \A i, j \in 1..Len(batch) :
                i < j => Rank(batch[i].priority) <= Rank(batch[j].priority)
           /\ Lanes(priorityQueue') =
                SubSeq(Lanes(priorityQueue), k + 1, PQSize(priorityQueue))
           /\ IsSuffix(priorityQueue'.high, priorityQueue.high)
           /\ IsSuffix(priorityQueue'.normal, priorityQueue.normal)
           /\ IsSuffix(priorityQueue'.low, priorityQueue.low)]_vars

C7_Witness ==
  /\ ghost.last.op = "getBatch"
  /\ Len(ghost.last.e) = 3
  /\ ghost.last.e[1].priority = "high"
  /\ ghost.last.e[2].priority = "normal"
  /\ ghost.last.e[3].priority = "low"
  /\ priorityQueue.low # << >>
  /\ ghost.last.removed = <<3>>

\* C8: when restoreOfflineEvents() has completed, every identity that a
\* failed send wrote to the offline store, and that no flush has selected
\* since, is in the queue exactly once.
C8_RestoredExactlyOnce ==
  ghost.last.op = "restored" \/ (ghost.last.op = "read" /\ restore.phase = "idle")
    => \A e \in restore.due \cap ghost.stored : Count(queue, e) = 1

\* C9 as stated: the delay of a retry timer is
\* retryInterval * 2^(N mod MAX_RETRY_COUNT) with N the number of failed
\* sends in a row that the timer's send ends.
C9_DelayByConsecutiveFailures ==
  \A i \in 1..Len(retryTimers) :
    retryTimers[i].delay =
      retryInterval * Pow2(retryTimers[i].consecutive % MAX_RETRY_COUNT)

\* C9 amended: the delay is retryInterval * 2^(N mod MAX_RETRY_COUNT) with N
\* the number of failed sends since the manager was created, successful
\* sends in between included; it never exceeds
\* retryInterval * 2^(MAX_RETRY_COUNT - 1).
C9_DelayByTotalFailures ==
  \A i \in 1..Len(retryTimers) :
    /\ retryTimers[i].delay =
         retryInterval * Pow2(retryTimers[i].fails % MAX_RETRY_COUNT)
    /\ retryTimers[i].delay <= retryInterval * Pow2(MAX_RETRY_COUNT - 1)

C9_Witness ==
  \E i \in 1..Len(retryTimers) :
    /\ retryTimers[i].fails = MAX_RETRY_COUNT
    /\ retryTimers[i].consecutive < retryTimers[i].fails
    /\ retryTimers[i].delay = retryInterval

\* C11: when send() reports success, the mechanism in its result is the one
\* whose attempt succeeded, the last one it called.
C11_ReportsSucceedingMechanism ==
  ghost.last.op = "send" /\ ghost.last.e.success
    => ghost.last.e.strategy = ghost.last.e.tried[Len(ghost.last.e.tried)]

\* C12: after a clearTimers() made with no flush in flight, and until the
\* next push() or init(), no delayed-flush callback, no retry callback and
\* no offline-recovery callback has run.
C12_NoCallbackAfterClearTimers ==
  ghost.teardown = "clean" => ghost.last.op \notin {"timer", "requeued", "restore"}

\* C13: every call of clearTimers(), before or after init() and whatever is
\* armed, leaves timer = null, retryTimers empty and offlineCheckTimer =
\* null and does not touch queue, lanes, dedupe cache and stats; a second
\* call right after it changes none of the timer fields, and the call is
\* possible in every state.
C13_ClearTimersIdempotent ==
  [][/\ ghost.clears > 0 => ENABLED ClearTimers
     /\ ghost'.clears = ghost.clears - 1 =>
          /\ timer' = FALSE
          /\ retryTimers' = << >>
          /\ offlineCheckTimer' = FALSE
          /\ UNCHANGED <<queue, priorityQueue, dedupe, stats>>
          /\ clearTimers(timer', timeouts', retryTimers', offlineCheckTimer')
               = [timer |-> timer', timeouts |-> timeouts',
                  retryTimers |-> retryTimers',
                  offlineCheckTimer |-> offlineCheckTimer']
          /\ ghost.last.op = "clearTimers" =>
               UNCHANGED <<timer, timeouts, retryTimers, offlineCheckTimer>>]_vars

C13_Witness ==
  /\ ghost.last.op = "clearTimers"
  /\ ghost.last.removed = <<"clearTimers">>
  /\ config.set
  /\ queue # << >>
  /\ ~timer /\ retryTimers = << >> /\ ~offlineCheckTimer

\* C14: of two queues under one configuration the one with the higher
\* pressure selects a batch size (before the cap by the queue length) and
\* a flush interval no greater than the other's, and both values lie
\* between the floors and the ceilings.
C14_BackpressureMonotone ==
  ghost.last.op = "pressure" =>
    LET lower == ghost.last.removed[1]
        higher == ghost.last.removed[2]
    IN  lower.n < higher.n =>
          /\ higher.adjusted <= lower.adjusted
          /\ higher.interval <= lower.interval
          /\ \A x \in {lower, higher} :
               /\ MIN_BATCH_SIZE <= x.adjusted /\ x.adjusted <= MAX_BATCH_SIZE
               /\ MIN_BATCH_INTERVAL <= x.interval
               /\ x.interval <= MAX_BATCH_INTERVAL

\* C15: restoreOfflineEvents() puts the recovered records in front of the
\* queue, and a flush that leaves a recovered record in the queue hands no
\* fresh event of that record's lane to the transport.
C15_RecoveredGoFirst ==
  [][/\ restore.phase = "deleting" /\ restore'.phase = "idle"
         => queue' = restore.events \o queue
     /\ Len(flights') > Len(flights)
         => LET batch == flights'[Len(flights')].batch
            IN  \A r \in ghost.recovered \cap SeqSet(queue') :
                  \A k \in 1..Len(batch) :
                    determineEventPriority(batch[k].event)
                        = determineEventPriority(r.event)
                      => batch[k] \in ghost.recovered]_vars

\* The position of the plugin called name in the registry ps.
IndexOf(ps, name) == CHOOSE k \in 1..Len(ps) : ps[k].name = name

\* The names that the calls before the k-th one have appended: those of
\* the hooks that returned.
RECURSIVE Marks(_, _, _)
Marks(ps, calls, k) ==
  IF k = 0 THEN << >>
  ELSE IF ps[IndexOf(ps, calls[k].name)].beforeSend = "ok"
    THEN Append(Marks(ps, calls, k - 1), calls[k].name)
  ELSE Marks(ps, calls, k - 1)

Registered(reg) == {reg.registered[i].name : i \in 1..Len(reg.registered)}

\* register(p) has to refuse p: its name is taken, a dependency is missing
\* or a declared conflict is registered.
Refused(reg, p) ==
  \/ p.name \in Registered(reg)
  \/ \E d \in p.dependencies : d \notin Registered(reg)
  \/ \E c \in p.conflicts : c \in Registered(reg)

\* C17: register(p) returns false and leaves the registry as it was when
\* p's name is registered, a dependency of p is not registered or a declared
\* conflict of p is registered; otherwise it returns true and the registry
\* is the old one with p added as an idle, enabled plugin.
C17_RegisterGuarded ==
  [][hookLog'.calls = hookLog.calls - 1 /\ hookLog'.last.op = "register" =>
       LET p == hookLog'.last.plugin
       IN IF Refused(plugins, p)
            THEN ~hookLog'.last.ok /\ plugins' = plugins
            ELSE /\ hookLog'.last.ok
                 /\ Len(plugins'.registered) = Len(plugins.registered) + 1
                 /\ SubSeq(plugins'.registered, 1, Len(plugins.registered))
                      = plugins.registered
                 /\ LET added == plugins'.registered[Len(plugins'.registered)]
                    IN /\ added.name = p.name
                       /\ added.dependencies = p.dependencies
                       /\ added.conflicts = p.conflicts
                       /\ added.lifecycle = "idle"
                       /\ added.enabled]_vars

\* A plugin was refused for a registered conflict alone, after another was
\* added.
C17_Witness ==
  /\ hookLog.last.op = "register"
  /\ ~hookLog.last.ok
  /\ hookLog.last.plugin.name \notin Registered(plugins)
  /\ hookLog.last.plugin.dependencies \subseteq Registered(plugins)
  /\ hookLog.last.plugin.conflicts \cap Registered(plugins) # {}
  /\ \E i \in 1..Len(plugins.registered) :
       plugins.registered[i].lifecycle = "idle" /\ plugins.registered[i].enabled

\* A step of track(): it takes one call from the log.
TrackStep == hookLog'.calls = hookLog.calls - 1 /\ hookLog'.last.op = "track"

\* An onTrack hook called by the last track() returned null.
ReturnedNull(log) ==
  \E i \in 1..Len(log.onTrack) : log.onTrack[i].result = "null"

\* The veto: after an onTrack hook returned null nothing is pushed, the
\* queue, the lanes and the dedupe cache are as before, the null was the
\* last onTrack call and no onTracked hook is called.
Vetoed ==
  ReturnedNull(hookLog'.last) =>
    /\ ~hookLog'.last.pushed
    /\ ghost'.pushes = ghost.pushes
    /\ queue' = queue /\ priorityQueue' = priorityQueue /\ dedupe' = dedupe
    /\ hookLog'.last.onTrack[Len(hookLog'.last.onTrack)].result = "null"
    /\ \A i \in 1..(Len(hookLog'.last.onTrack) - 1) :
         hookLog'.last.onTrack[i].result # "null"
    /\ hookLog'.last.onTracked = << >>

\* push() was called once for the tracked event, which the queue admitted.
PushedOnce ==
  /\ hookLog'.last.pushed
  /\ ghost'.pushes = ghost.pushes - 1
  /\ ghost'.admitted = [ghost.admitted EXCEPT ![hookLog'.last.e] = @ + 1]
  /\ ghost'.last.e = hookLog'.last.e

SameRecord(r, e) == r.id = e.id /\ r.event = e.event /\ r.timestamp = e.timestamp

\* C19: every record of the plain queue is in exactly one priority lane and
\* every record of a priority lane is in the plain queue.
C19_QueueMatchesLanes ==
  LET lanes == Lanes(priorityQueue)
  IN /\ \A i \in 1..Len(queue) :
          Cardinality({k \in 1..Len(lanes) : SameRecord(lanes[k], queue[i])}) = 1
     /\ \A k \in 1..Len(lanes) :
          \E i \in 1..Len(queue) : SameRecord(lanes[k], queue[i])

\* The events of the send batches in flight.
InFlight == Flat(flights)

\* C20: every key of the Deduplicator is the key of an event that is in the
\* queue or in a send batch in flight.
C20_KeysBelongToLiveEvents ==
  \A i \in 1..Len(dedupe) :
    \/ \E j \in 1..Len(queue) : generateEventKey(queue[j]) = dedupe[i]
    \/ \E j \in 1..Len(InFlight) : generateEventKey(InFlight[j]) = dedupe[i]

\* An event was delivered and its key is gone, while the key of a queued
\* event is kept.
C20_Witness ==
  /\ \E e \in Events :
       ghost.delivered[e] > 0 /\ ~DedupeExists(dedupe, e) /\ e \notin SeqSet(queue)
  /\ \E j \in 1..Len(queue) : DedupeExists(dedupe, queue[j])

\* A step in which a flush selected a batch.
FlushSelects == Len(flights') = Len(flights) + 1

\* The batch the flush of this step selected.
SelectedBatch == flights'[Len(flights')].batch

\* The queue the flush of this step selected from: the queue of the state
\* before, or for a flush made by push() that queue without the evicted
\* records and with the pushed event.
PreFlush ==
  IF ghost'.last.op = "pushed+flush"
    THEN Append(SubSeq(queue, Len(ghost'.last.removed) + 1, Len(queue)),
                ghost'.last.e)
  ELSE queue

LaneRank(e) == Rank(determineEventPriority(e.event))

\* C21: a flush that leaves a queued event behind selects no event of a lower
\* lane than that event, and within a lane it selects in queue order: an
\* event selected behind another of its lane means the other is selected.
C21_StrictPriorityAtFlush ==
  [][FlushSelects =>
       /\ \A i \in 1..Len(queue'), j \in 1..Len(SelectedBatch) :
            LaneRank(SelectedBatch[j]) <= LaneRank(queue'[i])
       /\ \A i, j \in 1..Len(PreFlush) :
            /\ i < j
            /\ LaneRank(PreFlush[i]) = LaneRank(PreFlush[j])
            /\ PreFlush[j] \in SeqSet(SelectedBatch)
            => PreFlush[i] \in SeqSet(SelectedBatch)]_vars


\* C22: a record leaves the offline store only in the reconciliation of
\* restoreOfflineEvents() or when it is in the batch whose send has just
\* succeeded; the successful send of another batch removes no record.
C22_StoreKeepsUnreplayed ==
  [][\A r \in db.table \ db'.table :
       \/ ghost'.last.op = "read"
       \/ ghost'.last.op = "sent" /\ r \in SeqSet(ghost'.last.e)]_vars


\* The keys of the records of a sequence.
Keys(s) == {generateEventKey(s[i]) : i \in 1..Len(s)}

\* C23: when restoreOfflineEvents() has completed, no record of the store
\* has the identity of a queued event, and every record it read that was not
\* in the queue is at the front of the queue and in the Deduplicator.
C23_RecoveryReconciles ==
  [][/\ restore.phase # "idle"
     /\ restore'.phase = "idle"
     /\ restore.events # << >>
     => /\ \A r \in db'.table : generateEventKey(r) \notin Keys(queue')
        /\ restore.phase = "deleting" =>
             /\ SubSeq(queue', 1, Len(restore.events)) = restore.events
             /\ \A i \in 1..Len(restore.events) :
                  DedupeExists(dedupe', restore.events[i])]_vars


\* C24: at most one flush is between its batch selection and the end of its
\* success or failure handling.
C24_OneFlushInProgress == Len(flights) <= 1


\* A step in which push() admitted an event on an initialised manager.
AdmittedStep ==
  /\ config.set
  /\ ghost'.pushes = ghost.pushes - 1
  /\ ghost'.last.op \in {"pushed", "pushed+flush"}

\* C25: when push() admits an event on an initialised manager and the
\* resulting pressure exceeds QUEUE_PRESSURE_HIGH a flush has selected a
\* batch when push returns; otherwise a timeout that will call flush() is
\* pending when push returns.
C25_FlushOrTimerAfterPush ==
  [][AdmittedStep =>
       LET q1 == IF FlushSelects THEN PreFlush ELSE queue'
       IN IF Len(q1) * 100 > QUEUE_PRESSURE_HIGH * maxQueueSize
            THEN FlushSelects
          ELSE timeouts'.held \/ timeouts'.orphans > 0]_vars


\* The batch of every pending retry timer is in neither the queue nor the
\* Deduplicator.
BatchesAway ==
  \A i \in 1..Len(retryTimers) :
    \A k \in 1..Len(retryTimers[i].batch) :
      /\ retryTimers[i].batch[k] \notin SeqSet(queue)
      /\ ~DedupeExists(dedupe, retryTimers[i].batch[k])

\* The retry timer's callback has run in this step.
RetryElapsed ==
  ghost'.last.op = "requeued" /\ Len(retryTimers') = Len(retryTimers) - 1

\* When the retry delay elapses the failed batch is at the front of the
\* queue, ahead of everything queued at that moment, each of its events is
\* in the Deduplicator and a timeout that will call flush() is pending.
Reinserted ==
  LET batch == ghost'.last.e
  IN /\ queue' = batch \o queue
     /\ \A k \in 1..Len(batch) : DedupeExists(dedupe', batch[k])
     /\ timeouts'.held \/ timeouts'.orphans > 0

\* C26: until its retry delay elapses a failed batch is in neither the queue
\* nor the Deduplicator; when the delay elapses the batch is back at the
\* front of the queue and in the Deduplicator, and a flush is scheduled.
C26_RetryReinserts ==
  [][/\ BatchesAway'
     /\ RetryElapsed => Reinserted]_vars


\* A step in which a send failed and handleSendFailure ran.
SendFailed == ghost'.fails = ghost.fails + 1

\* C27: after a failed send with offline mode enabled every event of the
\* batch is in the offline store's write buffer or table, no retry timer is
\* armed and the queue is as it was; with offline mode enabled no retry
\* timer ever exists, and with offline mode disabled nothing is ever written
\* to the offline store.
C27_FailurePathsExclusive ==
  [][/\ SendFailed /\ config.offlineEnabled =>
          /\ \A k \in 1..Len(ghost'.last.e) :
               ghost'.last.e[k] \in SeqSet(db'.writeBuffer) \cup db'.table
          /\ retryTimers' = retryTimers
          /\ queue' = queue
     /\ SendFailed /\ ~config.offlineEnabled => db' = db
     /\ config'.offlineEnabled => retryTimers' = << >>
     /\ ~config'.offlineEnabled => db'.writeBuffer = << >> /\ db'.table = {}]_vars

\* The send of a batch of two failed in offline mode: both events wait in
\* the write buffer and no retry timer is armed.
C27_Witness ==
  /\ config.offlineEnabled
  /\ ghost.last.op = "persisted"
  /\ Len(ghost.last.e) = 2
  /\ SeqSet(ghost.last.e) \subseteq SeqSet(db.writeBuffer)
  /\ retryTimers = << >>


\* The fallback chain from the selected mechanism on.
Chain(strategy) ==
  IF strategy = "beacon" THEN <<"beacon", "fetch", "xhr">> ELSE <<"fetch", "xhr">>

\* C28: the mechanisms one send() calls are a prefix of the chain beacon,
\* fetch, XHR that starts at the selected mechanism, so each is called at
\* most once and in that order; none is called after one has succeeded; and
\* send() reports failure only after the whole chain was called and failed.
C28_FallbackChainOrder ==
  ghost.last.op = "send" =>
    LET r == ghost.last.e
        ok == ghost.last.removed[3]
    IN /\ Len(r.tried) <= Len(Chain(r.strategy))
       /\ r.tried = SubSeq(Chain(r.strategy), 1, Len(r.tried))
       /\ \A i \in 1..(Len(r.tried) - 1) : ~ok[i]
       /\ ~r.success => r.tried = Chain(r.strategy)


\* C29: select() returns beacon when the network is offline, whatever the
\* size; otherwise fetch when the network is slow or the size exceeds
\* BEACON_SIZE_LIMIT; otherwise beacon when the size is below
\* SMALL_DATA_THRESHOLD.
C29_SelectionTable ==
  ghost.last.op = "send" =>
    LET networkType == ghost.last.removed[1]
        bodySize == ghost.last.removed[2]
        strategy == ghost.last.e.strategy
    IN IF networkType = "offline" THEN strategy = "beacon"
       ELSE IF networkType = "slow" \/ bodySize > BEACON_SIZE_LIMIT
         THEN strategy = "fetch"
       ELSE bodySize < SMALL_DATA_THRESHOLD => strategy = "beacon"

\* A body over the beacon limit went out by beacon first, the network being
\* offline.
C29_Witness ==
  /\ ghost.last.op = "send"
  /\ ghost.last.removed[1] = "offline"
  /\ ghost.last.removed[2] > BEACON_SIZE_LIMIT
  /\ ghost.last.e.tried[1] = "beacon"


\* C30: after a reading the type is offline whenever the platform flag is
\* false; it is slow only when the flag is true and the effective type is
\* 2g, the round-trip time exceeds 1000 or the bandwidth is below 1;
\* otherwise it is online.
C30_Classification ==
  ghost.last.op = "update" /\ ghost.last.removed[2] =>
    LET nav == ghost.last.removed[1]
        type == ghost.last.e.type
        worse == /\ nav.connection
                 /\ \/ nav.effectiveType = "2g"
                    \/ nav.rtt > 1000
                    \/ nav.downlink < 1
    IN IF ~nav.onLine THEN type = "offline"
       ELSE IF worse THEN type = "slow"
       ELSE type = "online"


\* A read of the NetworkManager was made in this step.
ReadStep == ghost'.last.op = "read" /\ ghost.last.op \in {"network", "tick", "read"}

\* The read of this step sampled the platform.
Sampled == ghost'.last.e.lastCheckTime = ghost.last.removed.now

\* The platform is sampled only when checkInterval has elapsed since the
\* last sample, and the first read ever samples.
SamplesWhenDue ==
  /\ Sampled => ghost.last.removed.now - ghost.last.e.lastCheckTime
                  >= NETWORK_CHECK_INTERVAL
  /\ ghost.last.removed.readAt = -1 => Sampled

AddsNewAtCapacity ==
  /\ ghost'.last.op = "add"
  /\ ~DedupeExists(dedupe, ghost'.last.e)
  /\ Len(dedupe) >= DedupeCapacity

\* C32: an add of a new key at capacity evicts the key that was least
\* recently added or found by exists, and no other.
C32_EvictsLeastRecentlyUsed ==
  [][AddsNewAtCapacity =>
       /\ ~DedupeExists(dedupe', ghost.run[1])
       /\ \A i \in 2..Len(ghost.run) : DedupeExists(dedupe', ghost.run[i])]_vars

\* C33: the cache never holds more than its capacity; an add of a new key
\* at capacity removes exactly one key that was there and inserts the new
\* one; an add below capacity removes none.
C33_DedupeBounded ==
  [][/\ Len(dedupe') <= DedupeCapacity
     /\ AddsNewAtCapacity =>
          /\ Cardinality({k \in SeqSet(dedupe) : ~LRUHas(dedupe', k)}) = 1
          /\ DedupeExists(dedupe', ghost'.last.e)
     /\ ghost'.last.op = "add" /\ Len(dedupe) < DedupeCapacity =>
          /\ \A k \in SeqSet(dedupe) : LRUHas(dedupe', k)
          /\ DedupeExists(dedupe', ghost'.last.e)]_vars

\* An add at capacity has evicted one key and the cache is full.
C33_Witness ==
  /\ ghost.last.op = "add"
  /\ Len(ghost.last.removed) = 1
  /\ Len(dedupe) = DedupeCapacity
  /\ DedupeExists(dedupe, ghost.last.e)


\* A step in which the transport answered a flush.
SendAnswered == ghost'.last.op \in {"sent", "persisted", "failed"} /\ flights' # flights

\* C34: totalEvents, sendSuccessCount and sendFailCount never decrease; the
\* answer of the transport to a flush adds one to exactly one of
\* sendSuccessCount and sendFailCount, no other step changes them, and a
\* rejected duplicate push changes no counter.
C34_StatsMonotone ==
  [][/\ stats'.totalEvents >= stats.totalEvents
     /\ stats'.sendSuccessCount >= stats.sendSuccessCount
     /\ stats'.sendFailCount >= stats.sendFailCount
     /\ IF SendAnswered
          THEN stats'.sendSuccessCount + stats'.sendFailCount
                 = stats.sendSuccessCount + stats.sendFailCount + 1
        ELSE /\ stats'.sendSuccessCount = stats.sendSuccessCount
             /\ stats'.sendFailCount = stats.sendFailCount
     /\ ghost'.last.op = "rejected" => stats' = stats]_vars

\* A send has failed, another has succeeded and an event was counted.
C34_Witness ==
  /\ stats.sendSuccessCount > 0
  /\ stats.sendFailCount > 0
  /\ stats.totalEvents > 0
  /\ ghost.clears < MaxClears


\* C35: every batch handed to the transport holds at least one event.
C35_NoEmptyBatchSent ==
  \A i \in 1..Len(flights) : flights[i].batch # << >>


\* C36: the plain queue holds at most one record per composite identity.
C36_NoDuplicateIdentities ==
  \A i, j \in 1..Len(queue) :
    i # j => generateEventKey(queue[i]) # generateEventKey(queue[j])


\* C37: at most one delayed-flush timeout is pending and none is pending
\* under a forgotten handle; the timer field holds a handle whenever a
\* timeout is pending, and only while a timeout is pending or a flush is
\* running.
C37_TimerFieldMatchesTimeout ==
  /\ timeouts.orphans = 0
  /\ timeouts.held => timer
  /\ timer => timeouts.held \/ flights # << >>


\* C38: when clearTimers() is called while a flush is awaiting the transport
\* and that flush then resolves as a failure, the failure arms no retry timer
\* and no delayed-flush timeout, re-inserts nothing into the queue and leaves
\* no timer pending.
C38_FailureAfterTeardownArmsNothing ==
  [][ghost.last.op = "clearTimers" /\ flights # << >> /\ SendFailed
       => /\ retryTimers' = << >>
          /\ ~timer' /\ ~timeouts'.held
          /\ queue' = queue]_vars


\* C40: a flush() made while a plugin is disabled calls neither the
\* beforeSend hook nor the afterSend hook of that plugin.
C40_DisabledPluginSilent ==
  ghost.last.op = "hooks"
    => LET ps == ghost.last.removed[1]
           o == ghost.last.e
       IN  \A i \in 1..Len(ps) :
             ~ps[i].enabled
               => /\ \A k \in 1..Len(o.beforeCalls) :
                       o.beforeCalls[k].name # ps[i].name
                  /\ \A k \in 1..Len(o.afterCalls) : o.afterCalls[k] # ps[i].name


\* The flush whose send is answered in this step.
Answered(i) ==
  /\ flights[i].phase = "sending"
  /\ \/ flights' = RemoveAt(flights, i)
     \/ flights' = [flights EXCEPT ![i].phase = "finishing"]

\* The events the failure path of this step keeps: the batch of the retry
\* timer it arms, or what it adds to the offline store.
KeptOnFailure ==
  IF config.offlineEnabled
    THEN (SeqSet(db'.writeBuffer) \cup db'.table)
           \ (SeqSet(db.writeBuffer) \cup db.table)
  ELSE IF Len(retryTimers') > Len(retryTimers)
    THEN SeqSet(retryTimers'[Len(retryTimers')].batch)
  ELSE {}

\* C39: on a failed send the events the failure path re-queues or persists
\* are the events the flush removed from the queue for that batch, whatever
\* the beforeSend hook did with the batch.
C39_FailureKeepsRemovedBatch ==
  [][SendFailed
       => \A i \in 1..Len(flights) :
            Answered(i) => KeptOnFailure = SeqSet(flights[i].removed)]_vars

====
